---------------------------- MODULE Spec2Model ----------------------------
(***************************************************************************)
(* State-machine model of the MME lineup picker (src/mme_picker/core.py):  *)
(* the greedy constrained selector greedy_select with passes_caps, the     *)
(* pruner prune_lineups with compute_pool_usage, and the pipeline main;    *)
(* of the threaded lineup generator (src/generate_fd_lineups.py) with its  *)
(* cancellation flag, work queue and workers; and of passes_caps and       *)
(* greedy_select of the older picker (src/mme150_picker.py).               *)
(*                                                                         *)
(* Numbers are kept exact.  A normalised metric (v - lo)/(hi - lo) is a    *)
(* numerator over the denominator hi - lo; a composite score is a          *)
(* numerator over the product of the four denominators (score_den); a      *)
(* penalised score is compared after multiplying by score_den *            *)
(* cap_count^2.  Percentages are integers, so cnt/total < pct/100 is       *)
(* cnt * 100 < pct * total.  The two exceptions are in                     *)
(* make_lineup_records: -ln(usage) is in thousandths, rounded, and the     *)
(* usage floor 1e-6 adds nothing to chalk_sum.                             *)
(***************************************************************************)
EXTENDS Integers, Sequences, FiniteSets, TLC

VARIABLES
    records,        \* greedy_select: the records argument (Seq of LineupRecord)
    cfg,            \* greedy_select: the other arguments
    gpc,            \* greedy_select: position ("idle", "rank", "loop", "returned")
    cap_count,      \* greedy_select locals, named as in the code
    score_lookup,
    score_den,
    order,
    window,
    selected,
    counts,
    seen_sets,
    max_repeat,
    relaxations,
    pointer,
    stalled,
    diag,           \* the diagnostics greedy_select returns (<<>> before return)
    summary,        \* the lines summarize_selection returned (<<>> before the call)
    last_step,      \* the branch the last loop iteration took, with its choice
    prev_run,       \* the result of the previous call on the same arguments
    mpc,            \* main: position ("direct" when greedy_select is called directly)
    args,           \* main: the arguments after apply_defaults, and the input files
    lineups_df,     \* main / prune_lineups: the pool table, a sequence of rows of cells
    df_in,          \* prune_lineups: the table it was given
    usage_map,      \* pid -> [num, den], the fraction num/den
    prune_stats,    \* <<>> for None, else <<stats>>
    low_players,
    pool_before,
    written,        \* the output files written so far
    error,          \* the exception that ended the run ("" for none)
    nz,             \* normalize: position, argument, the size of 1e-12, result
    fd_inputs,      \* generate_fd_lineups: TOTAL_LINEUPS, NUM_WORKERS, LINEUPS_PER_BATCH
    cancellation_requested, \* the threading.Event, TRUE when set
    work_queue,     \* the queue of batch ids not yet dequeued
    file_lock,      \* the thread holding file_lock (NoThread when free)
    all_lineups,    \* the shared list the workers extend
    wpc,            \* thread_id -> position of that worker
    batch_id,       \* thread_id -> the batch the worker dequeued last
    lineups,        \* thread_id -> what optimize returned for that batch
    dpc,            \* generate_lineups_dynamic: position
    saved,          \* the lineup file generate_lineups_dynamic wrote
    verdict,        \* passes_caps called on its own: position, candidate, both results
    base_scores,    \* mme150_picker.greedy_select: the list of (score, index) pairs
    ns,             \* main up to the call of greedy_select: the parsed options and what
                    \* becomes of them
    unfinished_tasks, \* work_queue.unfinished_tasks: put() adds one, task_done() takes one
    dequeues,       \* history: the batch ids work_queue.get returned, with the thread
    completed       \* history: batch id -> the lineups its optimize call returned

gvars == <<records, cfg, gpc, cap_count, score_lookup, score_den, order, window,
           selected, counts, seen_sets, max_repeat, relaxations, pointer, stalled,
           diag, last_step, prev_run>>

mvars == <<mpc, args, lineups_df, df_in, usage_map, prune_stats, low_players,
           pool_before, written, error>>

nvars == <<nz>>

wvars == <<fd_inputs, cancellation_requested, work_queue, file_lock, all_lineups,
           wpc, batch_id, lineups, dpc, saved>>

xvars == <<verdict, ns, base_scores>>

hvars == <<unfinished_tasks, dequeues, completed>>

vars == <<gvars, summary, mvars, nvars, wvars, xvars, hvars>>

----------------------------------------------------------------------------
(* Bounds of the model.                                                    *)

MaxPool == 3

MaxTarget == 3

\* the largest value in a list passed to normalize directly
MaxValue == 3

----------------------------------------------------------------------------
(* Helpers over sequences and sets.                                        *)

Range(s) == {s[i] : i \in DOMAIN s}

Min(a, b) == IF a <= b THEN a ELSE b

Max(a, b) == IF a >= b THEN a ELSE b

SeqMin(s) == CHOOSE v \in Range(s) : \A w \in Range(s) : v <= w

SeqMax(s) == CHOOSE v \in Range(s) : \A w \in Range(s) : v >= w

\* Python's int(math.floor(a / b)) for b > 0 is TLA+'s a \div b.
FloorDiv(a, b) == a \div b

\* dict.get(key, 0)
Get(d, key) == IF key \in DOMAIN d THEN d[key] ELSE 0

----------------------------------------------------------------------------
(* normalize: numerators and denominator of the min-max scaling.           *)

\* "if hi <= lo + 1e-12", where tiny is 1e-12 in the unit of the values
Degenerate(values, tiny) == SeqMax(values) <= SeqMin(values) + tiny

NormalizeDen(values, tiny) ==
    IF values = <<>> THEN 1
    ELSE IF Degenerate(values, tiny) THEN 1
    ELSE SeqMax(values) - SeqMin(values)

\* normalize without the subtraction of lo
NormalizeNumNoShift(values, tiny) ==
    IF values = <<>> THEN <<>>
    ELSE IF Degenerate(values, tiny) THEN [i \in DOMAIN values |-> 0]
    ELSE [i \in DOMAIN values |-> values[i]]

NormalizeNum(values, tiny) ==
    IF values = <<>> THEN <<>>
    ELSE IF Degenerate(values, tiny) THEN [i \in DOMAIN values |-> 0]
    ELSE [i \in DOMAIN values |-> values[i] - SeqMin(values)]

\* 1e-12 in the unit of the lineup metrics, which are whole numbers of units
\* far above 1e-12: less than one unit
MetricTiny == 0

NormDen(values) == NormalizeDen(values, MetricTiny)

NormNum(values) == NormalizeNum(values, MetricTiny)

\* normalize called directly on a list of values
NormalizeCall ==
    /\ nz.pc = "call"
    /\ nz' = [nz EXCEPT !.pc = "returned",
                        !.num = NormalizeNum(nz.values, nz.tiny),
                        !.den = NormalizeDen(nz.values, nz.tiny)]
    /\ UNCHANGED <<gvars, summary, mvars>>
    /\ UNCHANGED wvars
    /\ UNCHANGED xvars
    /\ UNCHANGED hvars

----------------------------------------------------------------------------
(* passes_caps                                                             *)

PlayerSet(players_id) == Range(players_id)

Overlap(chosen_players, current_players) ==
    Cardinality({k \in DOMAIN chosen_players : chosen_players[k] \in current_players})

\* the cap test written as "counts.get(pid, 0) > cap_count"
CapOkOffByOne(players_id, cnts, cap) ==
    \A k \in DOMAIN players_id : Get(cnts, players_id[k]) <= cap

CapOk(players_id, cnts, cap) ==
    \A k \in DOMAIN players_id : Get(cnts, players_id[k]) + 1 <= cap

\* the exact-duplicate guard left out
NotSeenDisabled(players_id, seen) == TRUE

NotSeen(players_id, seen) == PlayerSet(players_id) \notin seen

\* the overlap check skipped one threshold early
OverlapOkSkippedEarly(players_id, sel, recs, mr) ==
    mr < Len(players_id) - 1 =>
        \A s \in DOMAIN sel :
            Overlap(recs[sel[s]].players_id, PlayerSet(players_id)) <= mr

\* the overlap test written as "overlap > max_repeat + 1"
OverlapOkOffByOne(players_id, sel, recs, mr) ==
    mr < Len(players_id) =>
        \A s \in DOMAIN sel :
            Overlap(recs[sel[s]].players_id, PlayerSet(players_id)) <= mr + 1

OverlapOk(players_id, sel, recs, mr) ==
    mr < Len(players_id) =>
        \A s \in DOMAIN sel :
            Overlap(recs[sel[s]].players_id, PlayerSet(players_id)) <= mr

passes_caps(players_id, sel, recs, cnts, cap, mr, seen) ==
    /\ CapOk(players_id, cnts, cap)
    /\ NotSeen(players_id, seen)
    /\ OverlapOk(players_id, sel, recs, mr)

\* mme150_picker.passes_caps: cap, then overlap against every selected
\* lineup, then the seen-set
passes_caps_150(players_id, sel, recs, cnts, cap, mr, seen) ==
    /\ \A k \in DOMAIN players_id : Get(cnts, players_id[k]) + 1 <= cap
    /\ \A s \in DOMAIN sel :
          Overlap(recs[sel[s]].players_id, PlayerSet(players_id)) <= mr
    /\ PlayerSet(players_id) \notin seen

\* both versions called on the same candidate and selection state
PassesCapsCall ==
    /\ verdict.pc = "call"
    /\ verdict' = [verdict EXCEPT
                      !.pc = "returned",
                      !.core = passes_caps(records[verdict.idx].players_id, selected,
                                           records, counts, cap_count, max_repeat,
                                           seen_sets),
                      !.mme150 = passes_caps_150(records[verdict.idx].players_id,
                                                 selected, records, counts, cap_count,
                                                 max_repeat, seen_sets)]
    /\ UNCHANGED <<ns, base_scores>>
    /\ UNCHANGED <<gvars, summary, mvars, nvars, wvars>>
    /\ UNCHANGED hvars

----------------------------------------------------------------------------
(* greedy_select: ranking                                                  *)

\* cap_count without the floor of one lineup
CapCountNoFloor(cap_pct, n_target) == FloorDiv(cap_pct * n_target, 100)

CapCount(cap_pct, n_target) == Max(1, FloorDiv(cap_pct * n_target, 100))

Field(recs, f) == [i \in DOMAIN recs |-> recs[i][f]]

ScoreDen(recs) ==
    NormDen(Field(recs, "proj_sum")) * NormDen(Field(recs, "correlation_score"))
    * NormDen(Field(recs, "uniq_logsum")) * NormDen(Field(recs, "chalk_sum"))

ScoreNum(recs, w) ==
    LET dp == NormDen(Field(recs, "proj_sum"))
        dc == NormDen(Field(recs, "correlation_score"))
        du == NormDen(Field(recs, "uniq_logsum"))
        dk == NormDen(Field(recs, "chalk_sum"))
        np == NormNum(Field(recs, "proj_sum"))
        nc == NormNum(Field(recs, "correlation_score"))
        nu == NormNum(Field(recs, "uniq_logsum"))
        nk == NormNum(Field(recs, "chalk_sum"))
    IN  [i \in DOMAIN recs |->
            w.projection * np[i] * (dc * du * dk)
            + w.correlation * nc[i] * (dp * du * dk)
            + w.uniqueness * nu[i] * (dp * dc * dk)
            - w.chalk * nk[i] * (dp * dc * du)
            + recs[i].extra_score * (dp * dc * du * dk)]

\* score_entries.sort(key=(score, random), reverse=True): a stable sort, so
\* entries equal in both keys keep their order.
RankedBefore(score, rnd, i, j) ==
    \/ score[i] > score[j]
    \/ score[i] = score[j] /\ rnd[i] > rnd[j]
    \/ score[i] = score[j] /\ rnd[i] = rnd[j] /\ i < j

SortedOrder(score, rnd) ==
    LET n == Len(score)
        pos(i) == 1 + Cardinality({j \in 1..n : RankedBefore(score, rnd, j, i)})
    IN  [p \in 1..n |-> CHOOSE i \in 1..n : pos(i) = p]

\* The draws of random.random(), one per record.  A seed fixes the generator's
\* state and so the draws; without one the state is whatever it was.
SeededDraws(seed, n) == [i \in 1..n |-> ((seed + 1) * i * (i + seed)) % 5]

\* the draws when random.seed(seed) is left out
DrawsIgnoringSeed(seed, n) == [1..n -> 1..n]

Draws(seed, n) ==
    IF seed = <<>> THEN [1..n -> 1..n] ELSE {SeededDraws(seed[1], n)}

Window(selection_window, n) ==
    IF selection_window > 0 THEN Min(selection_window, n) ELSE n

----------------------------------------------------------------------------
(* greedy_select: one sweep over the window                                *)

\* the slice written "order[: pointer + window]"
BatchFromStart == SubSeq(order, 1, Min(pointer + window, Len(order)))

Batch == SubSeq(order, pointer + 1, Min(pointer + window, Len(order)))

Passes(idx) ==
    passes_caps(records[idx].players_id, selected, records, counts, cap_count,
                max_repeat, seen_sets)

\* sum over the lineup's slots of counts[pid]^2; the penalty is this over cap_count^2
PenaltyNum(idx) ==
    LET p == records[idx].players_id
        sq[k \in 0..Len(p)] ==
            IF k = 0 THEN 0 ELSE sq[k - 1] + Get(counts, p[k]) * Get(counts, p[k])
    IN  sq[Len(p)]

\* (score_lookup[idx] - breadth_penalty * penalty) * score_den * cap_count^2
PenalizedScore(idx) ==
    score_lookup[idx] * cap_count * cap_count
    - cfg.breadth_penalty * PenaltyNum(idx) * score_den

\* The scan "for idx in batch": best is 0 for None; a later candidate replaces
\* the best only when its score is strictly greater.
\* the comparison "score > best_score" written ">="
BetterThanOrEqual(idx, best) ==
    best = 0 \/ PenalizedScore(idx) >= PenalizedScore(best)

\* the comparison "score > best_score" written "<"
BetterThanReversed(idx, best) ==
    best = 0 \/ PenalizedScore(idx) < PenalizedScore(best)

BetterThan(idx, best) == best = 0 \/ PenalizedScore(idx) > PenalizedScore(best)

BestIdx ==
    LET b == Batch
        scan[k \in 0..Len(b)] ==
            IF k = 0 THEN 0
            ELSE IF Passes(b[k]) /\ BetterThan(b[k], scan[k - 1]) THEN b[k]
                 ELSE scan[k - 1]
    IN  scan[Len(b)]

\* the exhaustion test written "pointer + window < len(order)"
LoopCondShort ==
    Len(selected) < cfg.n_target /\ pointer + window < Len(order)

LoopCond == Len(selected) < cfg.n_target /\ pointer < Len(order)

----------------------------------------------------------------------------
(* greedy_select: actions                                                  *)

Rank ==
    /\ gpc = "rank"
    /\ cap_count' = CapCount(cfg.cap_pct, cfg.n_target)
    /\ score_lookup' = ScoreNum(records, cfg.weights)
    /\ \E rnd \in Draws(cfg.seed, Len(records)) :
          order' = SortedOrder(score_lookup', rnd)
    /\ score_den' = ScoreDen(records)
    /\ window' = Window(cfg.selection_window, Len(records))
    /\ selected' = <<>>
    /\ counts' = <<>>
    /\ seen_sets' = {}
    /\ max_repeat' = cfg.max_repeat_init
    /\ relaxations' = 0
    /\ pointer' = 0
    /\ stalled' = 0
    /\ gpc' = "loop"
    /\ UNCHANGED <<records, cfg, diag, summary, last_step, prev_run, mvars>>
    /\ UNCHANGED nvars
    /\ UNCHANGED wvars
    /\ UNCHANGED xvars
    /\ UNCHANGED hvars

AddCountsFirstOnly(cnts, players_id) ==
    LET pid == players_id[1]
    IN  [q \in DOMAIN cnts \cup {pid} |->
            IF q = pid THEN Get(cnts, pid) + 1 ELSE cnts[q]]

AddCounts(cnts, players_id) ==
    LET add[k \in 0..Len(players_id)] ==
            IF k = 0 THEN cnts
            ELSE LET pid == players_id[k]
                     c == add[k - 1]
                 IN  [q \in DOMAIN c \cup {pid} |->
                        IF q = pid THEN Get(c, pid) + 1 ELSE c[q]]
    IN  add[Len(players_id)]

Apply ==
    /\ gpc = "loop"
    /\ LoopCond
    /\ \E best_idx \in {BestIdx} :
           /\ best_idx # 0
           /\ selected' = Append(selected, best_idx)
           /\ seen_sets' = seen_sets \cup {PlayerSet(records[best_idx].players_id)}
           /\ counts' = AddCounts(counts, records[best_idx].players_id)
           /\ last_step' = [kind |-> "apply", idx |-> best_idx, batch |-> Batch]
    /\ stalled' = 0
    /\ UNCHANGED <<records, cfg, gpc, cap_count, score_lookup, score_den, order,
                   window, max_repeat, relaxations, pointer, diag, summary, prev_run, mvars>>
    /\ UNCHANGED nvars
    /\ UNCHANGED wvars
    /\ UNCHANGED xvars
    /\ UNCHANGED hvars

\* the relaxation test without "max_repeat < max_repeat_limit"
RelaxCondNoLimit(st) ==
    /\ cfg.stalled_threshold > 0
    /\ st >= cfg.stalled_threshold

RelaxCondAnyThreshold(st) ==
    /\ st >= cfg.stalled_threshold
    /\ max_repeat < cfg.max_repeat_limit

RelaxCond(st) ==
    /\ cfg.stalled_threshold > 0
    /\ st >= cfg.stalled_threshold
    /\ max_repeat < cfg.max_repeat_limit

Relax ==
    /\ gpc = "loop"
    /\ LoopCond
    /\ BestIdx = 0
    /\ RelaxCond(stalled + 1)
    /\ max_repeat' = max_repeat + 1
    /\ relaxations' = relaxations + 1
    /\ stalled' = 0
    /\ last_step' = [kind |-> "relax", idx |-> 0, batch |-> Batch]
    /\ UNCHANGED <<records, cfg, gpc, cap_count, score_lookup, score_den, order,
                   window, selected, counts, seen_sets, pointer, diag, summary,
                   prev_run, mvars>>
    /\ UNCHANGED nvars
    /\ UNCHANGED wvars
    /\ UNCHANGED xvars
    /\ UNCHANGED hvars

Advance ==
    /\ gpc = "loop"
    /\ LoopCond
    /\ BestIdx = 0
    /\ ~RelaxCond(stalled + 1)
    /\ stalled' = stalled + 1
    /\ pointer' = pointer + window
    /\ last_step' = [kind |-> "advance", idx |-> 0, batch |-> Batch]
    /\ UNCHANGED <<records, cfg, gpc, cap_count, score_lookup, score_den, order,
                   window, selected, counts, seen_sets, max_repeat, relaxations,
                   diag, summary, prev_run, mvars>>
    /\ UNCHANGED nvars
    /\ UNCHANGED wvars
    /\ UNCHANGED xvars
    /\ UNCHANGED hvars

\* diag with "picked" taken from the target
DiagPickedTarget ==
    [cap_pct |-> cfg.cap_pct,
     cap_count |-> cap_count,
     max_repeat_start |-> cfg.max_repeat_init,
     max_repeat_final |-> max_repeat,
     repeat_relaxations |-> relaxations,
     picked |-> cfg.n_target,
     target |-> cfg.n_target,
     lineups_considered |-> Len(records),
     selection_window |-> window]

Diag ==
    [cap_pct |-> cfg.cap_pct,
     cap_count |-> cap_count,
     max_repeat_start |-> cfg.max_repeat_init,
     max_repeat_final |-> max_repeat,
     repeat_relaxations |-> relaxations,
     picked |-> Len(selected),
     target |-> cfg.n_target,
     lineups_considered |-> Len(records),
     selection_window |-> window]

Return ==
    /\ gpc = "loop"
    /\ ~LoopCond
    /\ diag' = <<Diag>>
    /\ gpc' = "returned"
    /\ UNCHANGED <<records, cfg, cap_count, score_lookup, score_den, order, window,
                   selected, counts, seen_sets, max_repeat, relaxations, pointer,
                   stalled, summary, last_step, prev_run, mvars>>
    /\ UNCHANGED nvars
    /\ UNCHANGED wvars
    /\ UNCHANGED xvars
    /\ UNCHANGED hvars

----------------------------------------------------------------------------
(* summarize_selection: the kinds of the lines it returns, in order.       *)

SummaryLines(sel, cnts, dg, stats, n_target) ==
    <<"selected">>
    \o (IF stats # <<>> /\ stats[1].removed_lineups # 0 THEN <<"Pruned">> ELSE <<>>)
    \o <<"Exposure cap">>
    \o (IF dg.picked < n_target THEN <<"WARNING">> ELSE <<>>)
    \o (IF sel # <<>> THEN <<"Projection avg">> ELSE <<>>)
    \o (IF \E pid \in DOMAIN cnts : cnts[pid] >= dg.cap_count
        THEN <<"Players at cap">> ELSE <<>>)
    \o <<"Top exposures">>

\* summarize_selection called on what a direct call of greedy_select returned
Summarize ==
    /\ mpc = "direct"
    /\ gpc = "returned"
    /\ summary = <<>>
    /\ summary' = SummaryLines(selected, counts, diag[1], <<>>, cfg.n_target)
    /\ UNCHANGED <<gvars, mvars>>
    /\ UNCHANGED nvars
    /\ UNCHANGED wvars
    /\ UNCHANGED xvars
    /\ UNCHANGED hvars

\* greedy_select called again on the same arguments
Rerun ==
    /\ mpc = "direct"
    /\ gpc = "returned"
    /\ prev_run = <<>>
    /\ prev_run' = <<[selected |-> selected, counts |-> counts, diag |-> diag[1]]>>
    /\ gpc' = "rank"
    /\ diag' = <<>>
    /\ UNCHANGED <<records, cfg, cap_count, score_lookup, score_den, order, window,
                   selected, counts, seen_sets, max_repeat, relaxations, pointer,
                   stalled, last_step, summary, mvars>>
    /\ UNCHANGED nvars
    /\ UNCHANGED wvars
    /\ UNCHANGED xvars
    /\ UNCHANGED hvars

----------------------------------------------------------------------------
(* extract_player_id, compute_pool_usage, unique_players, prune_lineups    *)

\* A cell is [kind, name, id]: "named" is the text "name(id)", "bare" the text
\* id alone, "nan" an empty cell.
ExtractPlayerId(cell) ==
    CASE cell.kind = "named" -> cell.id
      [] cell.kind = "bare" -> cell.id
      [] OTHER -> ""

RowIds(row) == [k \in DOMAIN row |-> ExtractPlayerId(row[k])]

UniquePlayers(df) ==
    {RowIds(df[r])[k] : r \in DOMAIN df, k \in 1..Len(df[1])} \ {""}

\* counts[pid] += 1 for every cell holding pid
SlotCount(df, pid) ==
    Cardinality({<<r, k>> \in (DOMAIN df) \X (1..Len(df[1])) : RowIds(df[r])[k] = pid})

ComputePoolUsage(df) ==
    IF Len(df) = 0 THEN <<>>
    ELSE [pid \in UniquePlayers(df) |-> [num |-> SlotCount(df, pid), den |-> Len(df)]]

\* an exception ends the run
Raise(msg) ==
    /\ error' = msg
    /\ mpc' = "error"

\* compute_pool_usage raising on a pool of no rows
UsageCallRaising ==
    /\ mpc = "usage_call"
    /\ IF Len(lineups_df) = 0
       THEN Raise("EmptyPoolError") /\ UNCHANGED usage_map
       ELSE /\ usage_map' = ComputePoolUsage(lineups_df)
            /\ mpc' = "usage_returned"
            /\ UNCHANGED error
    /\ UNCHANGED <<gvars, summary, args, lineups_df, df_in, prune_stats, low_players,
                   pool_before, written>>
    /\ UNCHANGED nvars
    /\ UNCHANGED wvars
    /\ UNCHANGED xvars
    /\ UNCHANGED hvars

\* compute_pool_usage called directly on a table
UsageCall ==
    /\ mpc = "usage_call"
    /\ usage_map' = ComputePoolUsage(lineups_df)
    /\ mpc' = "usage_returned"
    /\ UNCHANGED <<gvars, summary, args, lineups_df, df_in, prune_stats, low_players,
                   pool_before, written, error>>
    /\ UNCHANGED nvars
    /\ UNCHANGED wvars
    /\ UNCHANGED xvars
    /\ UNCHANGED hvars

\* the comparison "pct < min_usage_frac" written "<="
IsLowInclusive(usage, min_usage_pct) == usage.num * 100 <= min_usage_pct * usage.den

\* pct < min_usage_frac, with min_usage_frac = min_usage_pct / 100
IsLow(usage, min_usage_pct) == usage.num * 100 < min_usage_pct * usage.den

LowPlayers(usage, min_usage_pct) ==
    {pid \in DOMAIN usage : IsLow(usage[pid], min_usage_pct)}

Masked(row, low) == \E k \in DOMAIN row : RowIds(row)[k] \in low

\* lineups_df[~mask].reset_index(drop=True)
KeepRows(df, low) ==
    LET keep[r \in 0..Len(df)] ==
            IF r = 0 THEN <<>>
            ELSE IF Masked(df[r], low) THEN keep[r - 1]
                 ELSE Append(keep[r - 1], df[r])
    IN  keep[Len(df)]

NumUnique(df) == IF Len(df) = 0 THEN 0 ELSE Cardinality(UniquePlayers(df))

PruneResult(df, usage, min_usage_pct) ==
    LET low == LowPlayers(usage, min_usage_pct)
        pruned == KeepRows(df, low)
    IN  IF low = {}
        THEN [df |-> df, low |-> low,
              stats |-> [n_before |-> Len(df), n_after |-> Len(df),
                         removed_lineups |-> 0,
                         players_before |-> NumUnique(df),
                         players_after |-> NumUnique(df),
                         removed_players |-> 0]]
        ELSE [df |-> pruned, low |-> low,
              stats |-> [n_before |-> Len(df), n_after |-> Len(pruned),
                         removed_lineups |->
                             Cardinality({r \in DOMAIN df : Masked(df[r], low)}),
                         players_before |-> NumUnique(df),
                         players_after |-> NumUnique(pruned),
                         removed_players |-> NumUnique(df) - NumUnique(pruned)]]

\* prune_lineups called directly on a table, a usage map and a cutoff
PruneCall ==
    /\ mpc = "prune_call"
    /\ LET res == PruneResult(lineups_df, usage_map, args.min_usage_pct)
       IN  /\ lineups_df' = res.df
           /\ prune_stats' = <<res.stats>>
           /\ low_players' = res.low
    /\ df_in' = lineups_df
    /\ mpc' = "prune_returned"
    /\ UNCHANGED <<gvars, summary, args, usage_map, pool_before, written, error>>
    /\ UNCHANGED nvars
    /\ UNCHANGED wvars
    /\ UNCHANGED xvars
    /\ UNCHANGED hvars

----------------------------------------------------------------------------
(* make_lineup_records                                                     *)

Projection == [p \in {"X", "Y", "Z", "W"} |->
                 CASE p = "X" -> 2 [] p = "Y" -> 1 [] p = "Z" -> 1 [] OTHER -> 0]

\* player_maps.projection.get(pid, 0.0)
ProjOf(pid) == IF pid \in DOMAIN Projection THEN Projection[pid] ELSE 0

ProjSum(players) ==
    LET sum[k \in 0..Len(players)] ==
            IF k = 0 THEN 0 ELSE sum[k - 1] + ProjOf(players[k])
    IN  sum[Len(players)]

\* 1000 * ln(k), rounded, for k = 1..10
LnMilli == <<0, 693, 1099, 1386, 1609, 1792, 1946, 2079, 2197, 2303>>

\* -ln(max(usage.get(pid, 1e-6), 1e-6)) in thousandths; 1000 * ln(1e-6) = -13816
NegLogUsage(usage, pid) ==
    IF pid \in DOMAIN usage
    THEN LnMilli[usage[pid].den] - LnMilli[usage[pid].num]
    ELSE 13816

\* max(usage.get(pid, 1e-6), 1e-6) in units of 1 / total, the denominator of
\* every entry of the pool's usage map; 1e-6 is below the unit and counts 0
ChalkUsage(usage, pid, total) ==
    IF pid \in DOMAIN usage THEN usage[pid].num ELSE 0

UniqLogsum(usage, players) ==
    LET sum[k \in 0..Len(players)] ==
            IF k = 0 THEN 0 ELSE sum[k - 1] + NegLogUsage(usage, players[k])
    IN  sum[Len(players)]

ChalkSum(usage, players, total) ==
    LET sum[k \in 0..Len(players)] ==
            IF k = 0 THEN 0 ELSE sum[k - 1] + ChalkUsage(usage, players[k], total)
    IN  sum[Len(players)]

Record(players, proj, uniq, chalk) ==
    [players_id |-> players, proj_sum |-> proj, correlation_score |-> 0,
     uniq_logsum |-> uniq, chalk_sum |-> chalk, extra_score |-> 0]

MakeLineupRecords(df, usage) ==
    [r \in DOMAIN df |->
        Record(RowIds(df[r]), ProjSum(RowIds(df[r])),
               UniqLogsum(usage, RowIds(df[r])),
               ChalkSum(usage, RowIds(df[r]), Len(df)))]

----------------------------------------------------------------------------
(* main                                                                    *)

\* lines 713-733: the pool is read and its usage computed
MainLoad ==
    /\ mpc = "load"
    /\ IF ~args.has_roster_cols
       THEN /\ Raise("ValueError: Lineup CSV missing required columns")
            /\ UNCHANGED <<pool_before, usage_map>>
       ELSE /\ pool_before' = Len(lineups_df)
            /\ usage_map' = ComputePoolUsage(lineups_df)
            /\ mpc' = "prune"
            /\ UNCHANGED error
    /\ UNCHANGED <<gvars, summary, args, lineups_df, df_in, prune_stats, low_players,
                   written>>
    /\ UNCHANGED nvars
    /\ UNCHANGED wvars
    /\ UNCHANGED xvars
    /\ UNCHANGED hvars

\* max(0.0, min_usage_pct / 100.0) if min_usage_pct else 0.0, as a percentage
MinUsagePct(min_usage_pct) == IF min_usage_pct # 0 THEN Max(0, min_usage_pct) ELSE 0

\* main keeping the usage map of the pool before pruning
MainPruneStaleUsage ==
    /\ mpc = "prune"
    /\ LET pct == MinUsagePct(args.min_usage_pct)
           res == PruneResult(lineups_df, usage_map, pct)
           df == IF pct > 0 THEN res.df ELSE lineups_df
       IN  /\ lineups_df' = df
           /\ prune_stats' = IF pct > 0 THEN <<res.stats>> ELSE <<>>
           /\ low_players' = IF pct > 0 THEN res.low ELSE {}
           /\ df_in' = lineups_df
           /\ IF Len(df) = 0
              THEN Raise("ValueError: No candidate lineups remain after pruning.")
              ELSE mpc' = "records" /\ UNCHANGED error
    /\ UNCHANGED <<gvars, summary, args, usage_map, pool_before, written>>
    /\ UNCHANGED nvars
    /\ UNCHANGED wvars
    /\ UNCHANGED xvars
    /\ UNCHANGED hvars

\* lines 734-744: prune, recompute the usage, fail on an empty pool
MainPrune ==
    /\ mpc = "prune"
    /\ LET pct == MinUsagePct(args.min_usage_pct)
           res == PruneResult(lineups_df, usage_map, pct)
           df == IF pct > 0 THEN res.df ELSE lineups_df
       IN  /\ lineups_df' = df
           /\ prune_stats' = IF pct > 0 THEN <<res.stats>> ELSE <<>>
           /\ low_players' = IF pct > 0 THEN res.low ELSE {}
           /\ df_in' = lineups_df
           /\ usage_map' = ComputePoolUsage(df)
           /\ IF Len(df) = 0
              THEN Raise("ValueError: No candidate lineups remain after pruning.")
              ELSE mpc' = "records" /\ UNCHANGED error
    /\ UNCHANGED <<gvars, summary, args, pool_before, written>>
    /\ UNCHANGED nvars
    /\ UNCHANGED wvars
    /\ UNCHANGED xvars
    /\ UNCHANGED hvars

\* selection_window=args.selection_window if len(records) > args.selection_window
\* else len(records)
WindowArg(selection_window, n) == IF n > selection_window THEN selection_window ELSE n

\* lines 746-767: projections, lineup records, the call of greedy_select
MainSelect ==
    /\ mpc = "records"
    /\ IF ~args.projections_ok
       THEN /\ Raise("ValueError: Projections CSV is empty.")
            /\ UNCHANGED <<records, cfg, gpc>>
       ELSE /\ records' = MakeLineupRecords(lineups_df, usage_map)
            /\ cfg' = [n_target |-> args.n,
                       cap_pct |-> args.cap,
                       max_repeat_init |-> args.max_repeat,
                       max_repeat_limit |-> args.max_repeat_limit,
                       breadth_penalty |-> args.breadth_penalty,
                       selection_window |->
                           WindowArg(args.selection_window, Len(lineups_df)),
                       stalled_threshold |-> args.stalled_threshold,
                       seed |-> args.seed,
                       weights |-> args.weights]
            /\ gpc' = "rank"
            /\ mpc' = "select"
            /\ UNCHANGED error
    /\ UNCHANGED <<cap_count, score_lookup, score_den, order, window, selected,
                   counts, seen_sets, max_repeat, relaxations, pointer, stalled,
                   diag, last_step, prev_run, summary, args, lineups_df, df_in,
                   usage_map, prune_stats, low_players, pool_before, written>>
    /\ UNCHANGED nvars
    /\ UNCHANGED wvars
    /\ UNCHANGED xvars
    /\ UNCHANGED hvars

\* main without the test "if not selected: raise RuntimeError"
MainCheckSkipped ==
    /\ mpc = "select"
    /\ gpc = "returned"
    /\ mpc' = "export_lineups"
    /\ UNCHANGED <<gvars, summary, args, lineups_df, df_in, usage_map, prune_stats,
                   low_players, pool_before, written, error>>
    /\ UNCHANGED nvars
    /\ UNCHANGED wvars
    /\ UNCHANGED xvars
    /\ UNCHANGED hvars

\* lines 768-770: no lineup selected is an error
MainCheck ==
    /\ mpc = "select"
    /\ gpc = "returned"
    /\ IF selected = <<>>
       THEN Raise("RuntimeError: Selector could not find any lineups under the given constraints.")
       ELSE mpc' = "export_lineups" /\ UNCHANGED error
    /\ UNCHANGED <<gvars, summary, args, lineups_df, df_in, usage_map, prune_stats,
                   low_players, pool_before, written>>
    /\ UNCHANGED nvars
    /\ UNCHANGED wvars
    /\ UNCHANGED xvars
    /\ UNCHANGED hvars

\* lines 772-780 and export_selected_lineups, which writes nothing for no lineups
MainExportLineups ==
    /\ mpc = "export_lineups"
    /\ written' = IF selected = <<>> THEN written ELSE written \cup {"selected_lineups"}
    /\ mpc' = "export_usage"
    /\ UNCHANGED <<gvars, summary, args, lineups_df, df_in, usage_map, prune_stats,
                   low_players, pool_before, error>>
    /\ UNCHANGED nvars
    /\ UNCHANGED wvars
    /\ UNCHANGED xvars
    /\ UNCHANGED hvars

\* lines 781-782 and export_usage_report, which writes nothing for no counts
MainExportUsage ==
    /\ mpc = "export_usage"
    /\ written' = IF DOMAIN counts = {} THEN written ELSE written \cup {"usage_report"}
    /\ mpc' = "summary"
    /\ UNCHANGED <<gvars, summary, args, lineups_df, df_in, usage_map, prune_stats,
                   low_players, pool_before, error>>
    /\ UNCHANGED nvars
    /\ UNCHANGED wvars
    /\ UNCHANGED xvars
    /\ UNCHANGED hvars

\* lines 784-801: the summary is built and written
MainSummary ==
    /\ mpc = "summary"
    /\ summary' = SummaryLines(selected, counts, diag[1], prune_stats, args.n)
    /\ written' = written \cup {"summary"}
    /\ mpc' = "done"
    /\ UNCHANGED <<gvars, args, lineups_df, df_in, usage_map, prune_stats,
                   low_players, pool_before, error>>
    /\ UNCHANGED nvars
    /\ UNCHANGED wvars
    /\ UNCHANGED xvars
    /\ UNCHANGED hvars

----------------------------------------------------------------------------
(* The lineup generator (src/generate_fd_lineups.py): the main thread runs *)
(* generate_lineups_dynamic, NUM_WORKERS threads run                       *)
(* generate_lineups_dynamic_worker, and signal_handler may run at any      *)
(* moment in between.  One action is one step another thread can see: the  *)
(* test of the flag and the dequeue are two steps, the append under        *)
(* file_lock is one.  A lineup is the pair of its batch and its rank in    *)
(* the batch.                                                              *)

NoThread == -1

NoBatch == -1

\* no lineup file was written
NoFile == [prefix |-> "none", lineups |-> <<>>]

Threads == 0..(fd_inputs.NUM_WORKERS - 1)

\* create_work_queue: the batch ids 0 .. total_lineups // lineups_per_batch - 1
CreateWorkQueue(total_lineups, lineups_per_batch) ==
    [i \in 1..(total_lineups \div lineups_per_batch) |-> i - 1]

\* what optimize yields for a batch: n lineups
Optimized(b, n) == [k \in 1..n |-> <<b, k>>]

SavePartialResultsDroppingLast(lineups_) ==
    IF lineups_ = <<>>
    THEN NoFile
    ELSE [prefix |-> "PARTIAL", lineups |-> SubSeq(lineups_, 1, Len(lineups_) - 1)]

\* save_partial_results: the file it exports, none for an empty list
SavePartialResults(lineups_) ==
    IF lineups_ = <<>>
    THEN NoFile
    ELSE [prefix |-> "PARTIAL", lineups |-> lineups_]

\* the normal save at the end of generate_lineups_dynamic
SaveResults(lineups_) ==
    IF lineups_ = <<>>
    THEN NoFile
    ELSE [prefix |-> "", lineups |-> lineups_]

\* signal_handler: Ctrl+C sets the flag
SignalHandler ==
    /\ dpc \in {"start", "workers"}
    /\ cancellation_requested' = TRUE
    /\ UNCHANGED <<fd_inputs, work_queue, file_lock, all_lineups, wpc, batch_id,
                   lineups, dpc, saved>>
    /\ UNCHANGED <<gvars, summary, mvars, nvars, xvars>>
    /\ UNCHANGED hvars

\* generate_lineups_dynamic up to the submission of the workers
DynamicStart ==
    /\ dpc = "start"
    /\ work_queue' = CreateWorkQueue(fd_inputs.TOTAL_LINEUPS,
                                     fd_inputs.LINEUPS_PER_BATCH)
    /\ unfinished_tasks' = Len(work_queue')
    /\ dequeues' = <<>>
    /\ completed' = <<>>
    /\ all_lineups' = <<>>
    /\ file_lock' = NoThread
    /\ wpc' = [w \in Threads |-> "setup"]
    /\ dpc' = "workers"
    /\ UNCHANGED <<fd_inputs, cancellation_requested, batch_id, lineups, saved>>
    /\ UNCHANGED <<gvars, summary, mvars, nvars, xvars>>

\* the worker before its loop; any exception there ends it
WorkerSetup(w) ==
    /\ dpc = "workers"
    /\ wpc[w] = "setup"
    /\ \E ok \in BOOLEAN :
         wpc' = [wpc EXCEPT ![w] = IF ok THEN "test" ELSE "done"]
    /\ UNCHANGED <<fd_inputs, cancellation_requested, work_queue, file_lock,
                   all_lineups, batch_id, lineups, dpc, saved>>
    /\ UNCHANGED <<gvars, summary, mvars, nvars, xvars>>
    /\ UNCHANGED hvars

\* while not cancellation_requested.is_set()
WorkerTest(w) ==
    /\ wpc[w] = "test"
    /\ wpc' = [wpc EXCEPT ![w] = IF cancellation_requested THEN "done" ELSE "get"]
    /\ UNCHANGED <<fd_inputs, cancellation_requested, work_queue, file_lock,
                   all_lineups, batch_id, lineups, dpc, saved>>
    /\ UNCHANGED <<gvars, summary, mvars, nvars, xvars>>
    /\ UNCHANGED hvars

\* work_queue.get(timeout=1); queue.Empty breaks the loop
WorkerGet(w) ==
    /\ wpc[w] = "get"
    /\ IF work_queue = <<>>
       THEN /\ wpc' = [wpc EXCEPT ![w] = "done"]
            /\ UNCHANGED <<work_queue, batch_id, dequeues>>
       ELSE /\ batch_id' = [batch_id EXCEPT ![w] = Head(work_queue)]
            /\ work_queue' = Tail(work_queue)
            /\ dequeues' = Append(dequeues, [batch |-> Head(work_queue), thread |-> w])
            /\ wpc' = [wpc EXCEPT ![w] = "optimize"]
    /\ UNCHANGED <<fd_inputs, cancellation_requested, file_lock, all_lineups,
                   lineups, dpc, saved>>
    /\ UNCHANGED <<gvars, summary, mvars, nvars, xvars>>
    /\ UNCHANGED <<unfinished_tasks, completed>>

\* optimizer.optimize returns some lineups, none, or raises; with none or an
\* exception the worker marks the batch done and tests the flag again
WorkerOptimize(w) ==
    /\ wpc[w] = "optimize"
    /\ \/ \E n \in 1..fd_inputs.LINEUPS_PER_BATCH :
            /\ lineups' = [lineups EXCEPT ![w] = Optimized(batch_id[w], n)]
            /\ wpc' = [wpc EXCEPT ![w] = "lock"]
            /\ completed' = (batch_id[w] :> lineups'[w]) @@ completed
            /\ UNCHANGED unfinished_tasks
       \/ /\ lineups' = [lineups EXCEPT ![w] = <<>>]
          /\ wpc' = [wpc EXCEPT ![w] = "test"]
          /\ unfinished_tasks' = unfinished_tasks - 1
          /\ UNCHANGED completed
    /\ UNCHANGED <<fd_inputs, cancellation_requested, work_queue, file_lock,
                   all_lineups, batch_id, dpc, saved>>
    /\ UNCHANGED <<gvars, summary, mvars, nvars, xvars>>
    /\ UNCHANGED dequeues

\* with file_lock: the acquisition
WorkerLock(w) ==
    /\ wpc[w] = "lock"
    /\ file_lock = NoThread
    /\ file_lock' = w
    /\ wpc' = [wpc EXCEPT ![w] = "extend"]
    /\ UNCHANGED <<fd_inputs, cancellation_requested, work_queue, all_lineups,
                   batch_id, lineups, dpc, saved>>
    /\ UNCHANGED <<gvars, summary, mvars, nvars, xvars>>
    /\ UNCHANGED hvars

\* all_lineups replaced by the batch instead of extended
WorkerExtendOverwriting(w) ==
    /\ wpc[w] = "extend"
    /\ all_lineups' = lineups[w]
    /\ file_lock' = NoThread
    /\ unfinished_tasks' = unfinished_tasks - 1
    /\ wpc' = [wpc EXCEPT ![w] = "test"]
    /\ UNCHANGED <<fd_inputs, cancellation_requested, work_queue, batch_id,
                   lineups, dpc, saved>>
    /\ UNCHANGED <<gvars, summary, mvars, nvars, xvars>>
    /\ UNCHANGED <<dequeues, completed>>

\* all_lineups.extend(processed_lineups), the release, work_queue.task_done()
WorkerExtend(w) ==
    /\ wpc[w] = "extend"
    /\ all_lineups' = all_lineups \o lineups[w]
    /\ file_lock' = NoThread
    /\ unfinished_tasks' = unfinished_tasks - 1
    /\ wpc' = [wpc EXCEPT ![w] = "test"]
    /\ UNCHANGED <<fd_inputs, cancellation_requested, work_queue, batch_id,
                   lineups, dpc, saved>>
    /\ UNCHANGED <<gvars, summary, mvars, nvars, xvars>>
    /\ UNCHANGED <<dequeues, completed>>

Worker(w) ==
    \/ WorkerSetup(w)
    \/ WorkerTest(w)
    \/ WorkerGet(w)
    \/ WorkerOptimize(w)
    \/ WorkerLock(w)
    \/ WorkerExtend(w)

\* generate_lineups_dynamic once the executor has joined every worker
DynamicFinish ==
    /\ dpc = "workers"
    /\ \A w \in Threads : wpc[w] = "done"
    /\ saved' = IF cancellation_requested
                THEN SavePartialResults(all_lineups)
                ELSE SaveResults(all_lineups)
    /\ dpc' = "returned"
    /\ UNCHANGED <<fd_inputs, cancellation_requested, work_queue, file_lock,
                   all_lineups, wpc, batch_id, lineups>>
    /\ UNCHANGED <<gvars, summary, mvars, nvars, xvars>>
    /\ UNCHANGED hvars

\* nothing was put on the queue, dequeued or optimized yet
InitHistory ==
    /\ unfinished_tasks = 0
    /\ dequeues = <<>>
    /\ completed = <<>>

\* passes_caps is not being called on its own
NoVerdict == [pc |-> "idle", idx |-> 0, core |-> FALSE, mme150 |-> FALSE]

\* no command line is being processed
NoNamespace == [pc |-> "idle", given |-> <<>>, args |-> <<>>, n_records |-> 0,
                passed |-> <<>>]

InitNoExtras ==
    /\ verdict = NoVerdict
    /\ ns = NoNamespace
    /\ base_scores = <<>>

\* the generator is not running
InitNoGenerator ==
    /\ fd_inputs = [TOTAL_LINEUPS |-> 0, NUM_WORKERS |-> 0, LINEUPS_PER_BATCH |-> 1]
    /\ cancellation_requested = FALSE
    /\ work_queue = <<>>
    /\ file_lock = NoThread
    /\ all_lineups = <<>>
    /\ wpc = <<>>
    /\ batch_id = <<>>
    /\ lineups = <<>>
    /\ dpc = "idle"
    /\ saved = NoFile
    /\ InitHistory

----------------------------------------------------------------------------
(* Inputs of greedy_select.                                                *)

\* The lineups a pool row is drawn from: the same player set in two slot
\* orders, pairs sharing one player, and a pair sharing none.
LineupList ==
    <<(<<"X", "Y">>), (<<"Y", "X">>), (<<"X", "Z">>), (<<"Z", "W">>)>>

\* proj_sum is summed as make_lineup_records sums it; the other metrics are
\* equal over the pool.
PoolRecord(players) == Record(players, ProjSum(players), 0, 0)

\* Pools of up to MaxPool distinct rows, listed in the order of LineupList: the
\* row order reaches the ranking only through entries equal in score and draw,
\* and the unseeded draws range over every value.
PoolShapes ==
    UNION {{s \in [1..n -> DOMAIN LineupList] :
                \A i \in 1..n : \A j \in 1..n : i < j => s[i] < s[j]} : n \in 0..MaxPool}

Pools == {[i \in DOMAIN s |-> PoolRecord(LineupList[s[i]])] : s \in PoolShapes}

Weights == [projection |-> 1, correlation |-> 1, uniqueness |-> 1, chalk |-> 1]

Configs ==
    [n_target : -1..MaxTarget,
     cap_pct : {10, 67, 100},
     max_repeat_init : {0, 1},
     max_repeat_limit : {0, 2},
     breadth_penalty : {0, 10},
     selection_window : {0, 1, 2},
     stalled_threshold : {0, 1, 2},
     seed : {<<>>},
     weights : {Weights}]

NoArgs == [min_usage_pct |-> 0]

\* normalize is not being called
NoNormalize == [pc |-> "idle", values |-> <<>>, tiny |-> 0, num |-> <<>>, den |-> 1]

InitGreedyLocals ==
    /\ cap_count = 0
    /\ score_lookup = <<>>
    /\ score_den = 1
    /\ order = <<>>
    /\ window = 0
    /\ selected = <<>>
    /\ counts = <<>>
    /\ seen_sets = {}
    /\ max_repeat = 0
    /\ relaxations = 0
    /\ pointer = 0
    /\ stalled = 0
    /\ diag = <<>>
    /\ summary = <<>>
    /\ last_step = [kind |-> "none", idx |-> 0, batch |-> <<>>]
    /\ prev_run = <<>>

InitMainLocals ==
    /\ df_in = <<>>
    /\ usage_map = <<>>
    /\ prune_stats = <<>>
    /\ low_players = {}
    /\ pool_before = 0
    /\ written = {}
    /\ error = ""

\* greedy_select called directly on a pool of records
InitCall(pools, configs) ==
    /\ records \in pools
    /\ cfg \in configs
    /\ gpc = "rank"
    /\ InitGreedyLocals
    /\ nz = NoNormalize
    /\ InitNoGenerator
    /\ InitNoExtras
    /\ mpc = "direct"
    /\ args = NoArgs
    /\ lineups_df = <<>>
    /\ InitMainLocals

Init == InitCall(Pools, Configs)

Select == Rank \/ Apply \/ Relax \/ Advance \/ Return

Next == Select \/ Summarize

Spec == Init /\ [][Next]_vars

----------------------------------------------------------------------------
(* Inputs of main and of prune_lineups: lineup tables.                     *)

Named(pid) == [kind |-> "named", name |-> "n", id |-> pid]

BareId(pid) == [kind |-> "bare", name |-> "", id |-> pid]

Blank == [kind |-> "nan", name |-> "", id |-> ""]

\* the rows a lineup CSV is drawn from, two roster columns each
RowList ==
    <<(<<Named("X"), Named("Y")>>), (<<BareId("Y"), Named("X")>>),
      (<<Named("X"), Named("Z")>>), (<<Named("Z"), Named("W")>>),
      (<<Named("W"), Blank>>)>>

TableShapes ==
    UNION {{s \in [1..n -> DOMAIN RowList] :
                \A i \in 1..n : \A j \in 1..n : i < j => s[i] < s[j]} : n \in 0..MaxPool}

Tables == {[i \in DOMAIN s |-> RowList[s[i]]] : s \in TableShapes}

\* args as apply_defaults leaves them ("args.n or defaults.n_target" is
\* never 0), with the outcome of reading the two CSV files
MainArgs ==
    [n : {-1, 1, 2},
     cap : {50, 100},
     max_repeat : {1},
     max_repeat_limit : {2},
     min_usage_pct : {-5, 0, 50, 100},
     breadth_penalty : {0},
     selection_window : {1, 5000},
     stalled_threshold : {1},
     seed : {<<0>>},
     weights : {Weights},
     has_roster_cols : BOOLEAN,
     projections_ok : BOOLEAN]

InitMain ==
    /\ lineups_df \in Tables
    /\ args \in MainArgs
    /\ mpc = "load"
    /\ records = <<>>
    /\ cfg = <<>>
    /\ gpc = "idle"
    /\ InitGreedyLocals
    /\ nz = NoNormalize
    /\ InitNoGenerator
    /\ InitNoExtras
    /\ InitMainLocals

NextMain ==
    \/ MainLoad
    \/ MainPrune
    \/ MainSelect
    \/ Select
    \/ MainCheck
    \/ MainExportLineups
    \/ MainExportUsage
    \/ MainSummary

SpecMain == InitMain /\ [][NextMain]_vars

\* prune_lineups called on a table with any usage map over the players:
\* usage 1/4 or 1/2, or no entry
UsageMaps ==
    UNION {[ps -> {[num |-> 1, den |-> 4], [num |-> 1, den |-> 2]}] :
                ps \in SUBSET {"X", "Y", "Z", "W"}}

InitPrune ==
    /\ lineups_df \in Tables
    /\ usage_map \in UsageMaps
    /\ args \in [min_usage_pct : {0, 25, 50, 100}]
    /\ mpc = "prune_call"
    /\ records = <<>>
    /\ cfg = <<>>
    /\ gpc = "idle"
    /\ InitGreedyLocals
    /\ nz = NoNormalize
    /\ InitNoGenerator
    /\ InitNoExtras
    /\ df_in = <<>>
    /\ prune_stats = <<>>
    /\ low_players = {}
    /\ pool_before = 0
    /\ written = {}
    /\ error = ""

NextPrune == PruneCall

SpecPrune == InitPrune /\ [][NextPrune]_vars

----------------------------------------------------------------------------
(* The pipeline on a pool of ten lineups in which one player (W) is in one *)
(* lineup only, and on the small tables, with a pruning cutoff.            *)

\* row i of a ten-lineup pool whose lone lineup is row p
TenPoolRow(i, p, k) ==
    IF i = p THEN <<Named("X"), Named("W")>>
    ELSE IF i % 2 = 0 THEN <<Named("X"), Named("Y")>>
    ELSE IF k = 1 THEN <<Named("X"), Named("Z")>>
    ELSE <<BareId("Z"), Named("Y")>>

TenPools == {[i \in 1..10 |-> TenPoolRow(i, p, k)] : p \in 1..10, k \in 1..2}

UsageArgs ==
    [n : {1, 2},
     cap : {100},
     max_repeat : {1},
     max_repeat_limit : {2},
     min_usage_pct : {15, 50},
     breadth_penalty : {0},
     selection_window : {1, 5000},
     stalled_threshold : {1},
     seed : {<<0>>},
     weights : {Weights},
     has_roster_cols : BOOLEAN,
     projections_ok : BOOLEAN]

InitUsage ==
    /\ lineups_df \in Tables \cup TenPools
    /\ args \in UsageArgs
    /\ mpc = "load"
    /\ records = <<>>
    /\ cfg = <<>>
    /\ gpc = "idle"
    /\ InitGreedyLocals
    /\ nz = NoNormalize
    /\ InitNoGenerator
    /\ InitNoExtras
    /\ InitMainLocals

SpecUsage == InitUsage /\ [][NextMain]_vars

----------------------------------------------------------------------------
(* compute_pool_usage called on a table: the small tables, and tables with *)
(* a row of two empty cells or a row that holds one player in both slots.  *)

UsageRowList ==
    RowList \o <<(<<Blank, Blank>>), (<<Named("X"), BareId("X")>>)>>

UsageTableShapes ==
    UNION {{s \in [1..n -> DOMAIN UsageRowList] :
                \A i \in 1..n : \A j \in 1..n : i < j => s[i] < s[j]} : n \in 0..MaxPool}

UsageTables == {[i \in DOMAIN s |-> UsageRowList[s[i]]] : s \in UsageTableShapes}

\* usage_map before compute_pool_usage has returned
NoValue == "none"

InitPoolUsage ==
    /\ lineups_df \in UsageTables
    /\ usage_map = NoValue
    /\ args = NoArgs
    /\ mpc = "usage_call"
    /\ records = <<>>
    /\ cfg = <<>>
    /\ gpc = "idle"
    /\ InitGreedyLocals
    /\ nz = NoNormalize
    /\ InitNoGenerator
    /\ InitNoExtras
    /\ df_in = <<>>
    /\ prune_stats = <<>>
    /\ low_players = {}
    /\ pool_before = 0
    /\ written = {}
    /\ error = ""

NextPoolUsage == UsageCall

SpecPoolUsage == InitPoolUsage /\ [][NextPoolUsage]_vars

----------------------------------------------------------------------------
(* normalize called on a list of up to MaxPool values, whole numbers of a  *)
(* unit in which 1e-12 is tiny: 0 for a unit above 1e-12, 1 for the unit   *)
(* 1e-12, 2 for the unit 5e-13.                                            *)

ValueLists == UNION {[1..n -> 0..MaxValue] : n \in 0..MaxPool}

InitNormalize ==
    /\ nz \in [pc : {"call"}, values : ValueLists, tiny : {0, 1, 2},
                num : {<<>>}, den : {1}]
    /\ InitNoGenerator
    /\ InitNoExtras
    /\ records = <<>>
    /\ cfg = <<>>
    /\ gpc = "idle"
    /\ InitGreedyLocals
    /\ mpc = "idle"
    /\ args = NoArgs
    /\ lineups_df = <<>>
    /\ InitMainLocals

NextNormalize == NormalizeCall

SpecNormalize == InitNormalize /\ [][NextNormalize]_vars

----------------------------------------------------------------------------
(* passes_caps of core and of mme150_picker called on the same arguments:   *)
(* a candidate, a selection state, a cap and a threshold, over lineups of   *)
(* one roster size, a lineup naming one player in both slots included.      *)
(* The selection state is any value of the argument types.                  *)

CapsLineups ==
    <<(<<"X", "Y">>), (<<"Y", "X">>), (<<"X", "Z">>), (<<"Z", "W">>), (<<"X", "X">>)>>

CapsRecords == [i \in DOMAIN CapsLineups |-> PoolRecord(CapsLineups[i])]

CapsSelections == UNION {[1..n -> DOMAIN CapsLineups] : n \in {0, 1, 2}}

CapsCounts == {<<>>, [p \in {"X"} |-> 1], [p \in {"X", "Y"} |-> 1], [p \in {"X"} |-> 2]}

InitPassesCaps ==
    /\ verdict \in [pc : {"call"}, idx : DOMAIN CapsLineups, core : {FALSE},
                     mme150 : {FALSE}]
    /\ ns = NoNamespace
    /\ base_scores = <<>>
    /\ records = CapsRecords
    /\ selected \in CapsSelections
    /\ counts \in CapsCounts
    /\ seen_sets \in SUBSET {PlayerSet(CapsLineups[i]) : i \in DOMAIN CapsLineups}
    /\ cap_count \in {1, 2}
    /\ max_repeat \in {0, 1, 2, 3}
    /\ cfg = <<>>
    /\ gpc = "idle"
    /\ score_lookup = <<>>
    /\ score_den = 1
    /\ order = <<>>
    /\ window = 0
    /\ relaxations = 0
    /\ pointer = 0
    /\ stalled = 0
    /\ diag = <<>>
    /\ summary = <<>>
    /\ last_step = [kind |-> "none", idx |-> 0, batch |-> <<>>]
    /\ prev_run = <<>>
    /\ nz = NoNormalize
    /\ InitNoGenerator
    /\ mpc = "idle"
    /\ args = NoArgs
    /\ lineups_df = <<>>
    /\ InitMainLocals

NextPassesCaps == PassesCapsCall

SpecPassesCaps == InitPassesCaps /\ [][NextPassesCaps]_vars

----------------------------------------------------------------------------
(* The selector options from the command line to greedy_select: parse      *)
(* leaves None for an option that was not given (<<>> here, <<v>> for a     *)
(* given value v), apply_defaults fills in the helper's defaults, and main  *)
(* passes the result to greedy_select.                                      *)

SelectorOptions ==
    {"n", "max_repeat", "max_repeat_limit", "selection_window", "stalled_threshold"}

\* PickerDefaults
Defaults ==
    [n |-> 150, max_repeat |-> 5, max_repeat_limit |-> 7, selection_window |-> 5000,
     stalled_threshold |-> 3]

\* "value or default": None and 0 are both false
Or(value, default) == IF value # <<>> /\ value[1] # 0 THEN value[1] ELSE default

\* apply_defaults on the selector options
ApplyDefaults ==
    /\ ns.pc = "parsed"
    /\ ns' = [ns EXCEPT !.pc = "defaults_applied",
                        !.args = [f \in SelectorOptions |-> Or(ns.given[f], Defaults[f])]]
    /\ UNCHANGED <<gvars, summary, mvars, nvars, wvars, verdict, base_scores, hvars>>

\* main: the keyword arguments of the call of greedy_select
PassToSelect ==
    /\ ns.pc = "defaults_applied"
    /\ ns' = [ns EXCEPT
                 !.pc = "passed",
                 !.passed = [f \in SelectorOptions |->
                               IF f = "selection_window"
                               THEN WindowArg(ns.args[f], ns.n_records)
                               ELSE ns.args[f]]]
    /\ UNCHANGED <<gvars, summary, mvars, nvars, wvars, verdict, base_scores, hvars>>

GivenValues == {<<>>, <<0>>, <<1>>, <<2>>}

InitOptions ==
    /\ ns \in [pc : {"parsed"}, given : [SelectorOptions -> GivenValues],
                args : {<<>>}, n_records : {1, 3}, passed : {<<>>}]
    /\ verdict = NoVerdict
    /\ base_scores = <<>>
    /\ records = <<>>
    /\ cfg = <<>>
    /\ gpc = "idle"
    /\ InitGreedyLocals
    /\ nz = NoNormalize
    /\ InitNoGenerator
    /\ mpc = "idle"
    /\ args = NoArgs
    /\ lineups_df = <<>>
    /\ InitMainLocals

NextOptions == ApplyDefaults \/ PassToSelect

SpecOptions == InitOptions /\ [][NextOptions]_vars

----------------------------------------------------------------------------
(* mme150_picker.greedy_select, on pools whose lineups differ in           *)
(* projection only: the stack bonuses are 0 and uniq_logsum and chalk_sum   *)
(* are equal over the pool, so a base score is 0.55 * proj_norm, kept as    *)
(* the numerator 55 * (proj - lo) over 100 * (hi - lo).  Indices are        *)
(* 1-based: base_scores[i] here is base_scores[i - 1] there.                *)

\* cap_count = int(floor(cap_pct/100 * n_target + 1e-9)), with no floor of one
CapCount150(cap_pct, n_target) == FloorDiv(cap_pct * n_target, 100)

\* the score computed for every lineup, in the order of the pool
ComputedScores(recs) == [i \in DOMAIN recs |-> 55 * NormNum(Field(recs, "proj_sum"))[i]]

\* base_scores.sort(key=lambda x: x[0], reverse=True): stable
SortedScores(recs) ==
    LET sc == ComputedScores(recs)
        ord == SortedOrder(sc, [i \in DOMAIN recs |-> 0])
    IN  [p \in DOMAIN recs |-> [s |-> sc[ord[p]], i |-> ord[p]]]

\* window = 5000 if len(lineups) > 6000 else len(lineups)
Window150(n) == IF n > 6000 THEN 5000 ELSE n

Passes150(idx) ==
    passes_caps_150(records[idx].players_id, selected, records, counts, cap_count,
                    max_repeat, seen_sets)

\* (s - 0.05 * pen) * 100 * (hi - lo) * max(1, cap_count)^2 for a base score
\* of numerator s; pen is the sum of (counts[pid] / max(1, cap_count))^2
Penalized150(s, idx) ==
    s * Max(1, cap_count) * Max(1, cap_count)
    - 5 * PenaltyNum(idx) * NormDen(Field(records, "proj_sum"))

\* score = base_scores[i][0] - 0.05*pen
Score150(idx) == Penalized150(base_scores[idx].s, idx)

\* the scan: a later candidate replaces the best only when strictly greater
BestIdx150 ==
    LET b == Batch
        scan[k \in 0..Len(b)] ==
            IF k = 0 THEN 0
            ELSE IF /\ Passes150(b[k])
                    /\ (scan[k - 1] = 0 \/ Score150(b[k]) > Score150(scan[k - 1]))
                 THEN b[k]
                 ELSE scan[k - 1]
    IN  scan[Len(b)]

Rank150 ==
    /\ gpc = "rank150"
    /\ cap_count' = CapCount150(cfg.cap_pct, cfg.n_target)
    /\ base_scores' = SortedScores(records)
    /\ order' = [p \in DOMAIN records |-> base_scores'[p].i]
    /\ window' = Window150(Len(records))
    /\ selected' = <<>>
    /\ counts' = <<>>
    /\ seen_sets' = {}
    /\ max_repeat' = cfg.max_repeat_init
    /\ relaxations' = 0
    /\ pointer' = 0
    /\ stalled' = 0
    /\ gpc' = "loop150"
    /\ UNCHANGED <<records, cfg, score_lookup, score_den, diag, summary, last_step,
                   prev_run, mvars, nvars, wvars, verdict, ns, hvars>>

Apply150 ==
    /\ gpc = "loop150"
    /\ LoopCond
    /\ \E best_i \in {BestIdx150} :
           /\ best_i # 0
           /\ selected' = Append(selected, best_i)
           /\ seen_sets' = seen_sets \cup {PlayerSet(records[best_i].players_id)}
           /\ counts' = AddCounts(counts, records[best_i].players_id)
           /\ last_step' = [kind |-> "apply", idx |-> best_i, batch |-> Batch]
    /\ stalled' = 0
    /\ UNCHANGED <<records, cfg, gpc, cap_count, score_lookup, score_den, order,
                   window, max_repeat, relaxations, pointer, diag, summary, prev_run,
                   mvars, nvars, wvars, xvars, hvars>>

\* a sweep with no passing candidate: "stalled += 1; if stalled >= 3 and
\* max_repeat < 6: relax, else: ptr += window"
Stall150 ==
    /\ gpc = "loop150"
    /\ LoopCond
    /\ BestIdx150 = 0
    /\ IF stalled + 1 >= 3 /\ max_repeat < 6
       THEN /\ max_repeat' = max_repeat + 1
            /\ relaxations' = relaxations + 1
            /\ stalled' = 0
            /\ last_step' = [kind |-> "relax", idx |-> 0, batch |-> Batch]
            /\ UNCHANGED pointer
       ELSE /\ stalled' = stalled + 1
            /\ pointer' = pointer + window
            /\ last_step' = [kind |-> "advance", idx |-> 0, batch |-> Batch]
            /\ UNCHANGED <<max_repeat, relaxations>>
    /\ UNCHANGED <<records, cfg, gpc, cap_count, score_lookup, score_den, order,
                   window, selected, counts, seen_sets, diag, summary, prev_run,
                   mvars, nvars, wvars, xvars, hvars>>

Return150 ==
    /\ gpc = "loop150"
    /\ ~LoopCond
    /\ diag' = <<[cap_count |-> cap_count,
                  max_repeat_start |-> cfg.max_repeat_init,
                  max_repeat_final |-> max_repeat,
                  repeat_relaxations |-> relaxations,
                  picked |-> Len(selected)]>>
    /\ gpc' = "returned150"
    /\ UNCHANGED <<records, cfg, cap_count, score_lookup, score_den, order, window,
                   selected, counts, seen_sets, max_repeat, relaxations, pointer,
                   stalled, summary, last_step, prev_run, mvars, nvars, wvars, xvars,
                   hvars>>

Lineups150 ==
    <<(<<"X", "Y">>), (<<"Z", "W">>), (<<"Y", "Z">>), (<<"X", "W">>)>>

\* pools of up to MaxPool different lineups, in any order
Pools150 ==
    UNION {{[i \in 1..n |-> PoolRecord(Lineups150[f[i]])] :
               f \in {g \in [1..n -> DOMAIN Lineups150] :
                         \A i \in 1..n : \A j \in 1..n : i # j => g[i] # g[j]}} :
           n \in 1..MaxPool}

Configs150 ==
    [n_target : 1..MaxTarget, cap_pct : {50, 100}, max_repeat_init : {0, 1, 4}]

Init150 ==
    /\ records \in Pools150
    /\ cfg \in Configs150
    /\ gpc = "rank150"
    /\ InitGreedyLocals
    /\ nz = NoNormalize
    /\ InitNoGenerator
    /\ InitNoExtras
    /\ mpc = "direct"
    /\ args = NoArgs
    /\ lineups_df = <<>>
    /\ InitMainLocals

Next150 == Rank150 \/ Apply150 \/ Stall150 \/ Return150

Spec150 == Init150 /\ [][Next150]_vars

----------------------------------------------------------------------------
(* The generator run from main: signal_handler is registered before        *)
(* generate_lineups_dynamic starts.  Every thread that can take a step     *)
(* eventually takes one (a started optimize call returns, a lock that is   *)
(* free is acquired, the executor joins finished workers); nothing is      *)
(* assumed about when, or whether, Ctrl+C arrives.                         *)

\* the largest TOTAL_LINEUPS
MaxTotal == 3

\* the largest NUM_WORKERS
MaxWorkers == 2

InitGenerator ==
    /\ fd_inputs \in [TOTAL_LINEUPS : 0..MaxTotal, NUM_WORKERS : 1..MaxWorkers,
                      LINEUPS_PER_BATCH : {1, 2}]
    /\ cancellation_requested = FALSE
    /\ work_queue = <<>>
    /\ file_lock = NoThread
    /\ all_lineups = <<>>
    /\ wpc = [w \in Threads |-> "unsubmitted"]
    /\ batch_id = [w \in Threads |-> NoBatch]
    /\ lineups = [w \in Threads |-> <<>>]
    /\ dpc = "start"
    /\ saved = NoFile
    /\ InitHistory
    /\ InitNoExtras
    /\ nz = NoNormalize
    /\ records = <<>>
    /\ cfg = <<>>
    /\ gpc = "idle"
    /\ InitGreedyLocals
    /\ mpc = "idle"
    /\ args = NoArgs
    /\ lineups_df = <<>>
    /\ InitMainLocals

NextGenerator ==
    \/ SignalHandler
    \/ DynamicStart
    \/ \E w \in Threads : Worker(w)
    \/ DynamicFinish

SpecGenerator ==
    /\ InitGenerator
    /\ [][NextGenerator]_vars
    /\ WF_vars(DynamicStart)
    /\ WF_vars(DynamicFinish)
    /\ \A w \in 0..(MaxWorkers - 1) : WF_vars(w \in Threads /\ Worker(w))

----------------------------------------------------------------------------
(* Vocabulary of the properties.                                           *)

Returned == gpc = "returned"

SelPlayers(s) == PlayerSet(records[selected[s]].players_id)

\* the number of player ids two selected lineups share
Shared(s, t) == Cardinality(SelPlayers(s) \cap SelPlayers(t))

\* the number of selected lineups that contain player p
LineupsWith(p) == Cardinality({s \in DOMAIN selected : p \in SelPlayers(s)})

AllPlayers == UNION {PlayerSet(records[i].players_id) : i \in DOMAIN records}

----------------------------------------------------------------------------
(* C1: at every point of a run of greedy_select any two distinct selected  *)
(* lineups share at most as many player ids as the overlap threshold       *)
(* current at that point, and at return at most diag.max_repeat_final.     *)

C1_PairwiseOverlap ==
    /\ \A s \in DOMAIN selected : \A t \in DOMAIN selected :
            s # t => Shared(s, t) <= max_repeat
    /\ Returned =>
            \A s \in DOMAIN selected : \A t \in DOMAIN selected :
                s # t => Shared(s, t) <= diag[1].max_repeat_final

\* a returned run that relaxed the threshold, below the roster size at the
\* end, with a selected pair sharing exactly that many players
C1_Witness ==
    /\ Returned
    /\ relaxations >= 1
    /\ \E s \in DOMAIN selected : \E t \in DOMAIN selected :
            /\ s # t
            /\ Shared(s, t) = max_repeat
            /\ max_repeat < Len(records[selected[s]].players_id)

(* C2: at every point of a run of greedy_select every player id is in at   *)
(* most max(1, floor(cap_pct/100 * n_target)) selected lineups.            *)

C2_ExposureCap ==
    \A p \in AllPlayers :
        LineupsWith(p) <= Max(1, (cfg.cap_pct * cfg.n_target) \div 100)

\* an under-filled run in which a player is at the cap and an unselected
\* lineup with that player is refused by the cap alone
C2_Witness ==
    /\ Returned
    /\ Len(selected) < cfg.n_target
    /\ (cfg.cap_pct * cfg.n_target) \div 100 >= 1
    /\ \E p \in AllPlayers : \E i \in DOMAIN records :
            /\ LineupsWith(p) = (cfg.cap_pct * cfg.n_target) \div 100
            /\ p \in PlayerSet(records[i].players_id)
            /\ i \notin Range(selected)
            /\ NotSeen(records[i].players_id, seen_sets)
            /\ OverlapOk(records[i].players_id, selected, records, max_repeat)
            /\ ~CapOk(records[i].players_id, counts, cap_count)

(* C3: greedy_select never selects two lineups with the same set of player *)
(* ids, rows listing the ids in different slots included.                  *)

C3_NoDuplicateSets ==
    \A s \in DOMAIN selected : \A t \in DOMAIN selected :
        s # t => SelPlayers(s) # SelPlayers(t)

\* the pool holds two rows with one player set, one of them is selected, and
\* neither the cap nor the overlap threshold would have refused the other
C3_Witness ==
    /\ Returned
    /\ Len(selected) < cfg.n_target
    /\ \E i \in DOMAIN records : \E j \in DOMAIN records :
            /\ i # j
            /\ PlayerSet(records[i].players_id) = PlayerSet(records[j].players_id)
            /\ i \in Range(selected)
            /\ j \notin Range(selected)
            /\ CapOk(records[j].players_id, counts, cap_count)
            /\ OverlapOk(records[j].players_id, selected, records, max_repeat)

(* C4 as stated: with cap_pct = 10 and n_target = 3 greedy_select selects   *)
(* no lineup and reports picked = 0, target = 3.                           *)

C4_Original ==
    (Returned /\ cfg.cap_pct = 10 /\ cfg.n_target = 3) =>
        /\ Len(selected) = 0
        /\ diag[1].picked = 0
        /\ diag[1].target = 3

(* C4 amended: with cap_pct = 10 and n_target = 3 cap_count is 1;          *)
(* greedy_select selects at least one lineup from every non-empty pool, no *)
(* player is in two selected lineups, and the diagnostics report           *)
(* picked = the number selected, target = 3 and cap_count = 1.             *)

C4_CapFloorOne ==
    (Returned /\ cfg.cap_pct = 10 /\ cfg.n_target = 3) =>
        /\ diag[1].cap_count = 1
        /\ diag[1].picked = Len(selected)
        /\ diag[1].target = 3
        /\ records # <<>> => Len(selected) >= 1
        /\ \A p \in AllPlayers : LineupsWith(p) <= 1

\* cap_pct = 10, n_target = 3: two lineups with no common player selected
C4_Witness ==
    /\ Returned
    /\ cfg.cap_pct = 10
    /\ cfg.n_target = 3
    /\ Len(selected) = 2

----------------------------------------------------------------------------
(* Scenario A: the pool {[X,Y], [X,Z], [Y,Z]} with n_target = 2,           *)
(* cap_pct = 100 and max_repeat_init = 1.  The three proj_sum values are   *)
(* distinct and the other metrics equal, so the composite scores are       *)
(* distinct and take every order.                                          *)

ScenarioAPools ==
    {<<Record(<<"X", "Y">>, a, 0, 0), Record(<<"X", "Z">>, b, 0, 0),
       Record(<<"Y", "Z">>, c, 0, 0)>> :
        <<a, b, c>> \in {t \in (0..3) \X (0..3) \X (0..3) :
                            t[1] # t[2] /\ t[1] # t[3] /\ t[2] # t[3]}}

ScenarioAConfigs ==
    [n_target : {2},
     cap_pct : {100},
     max_repeat_init : {1},
     max_repeat_limit : {0, 1, 2},
     breadth_penalty : {0, 10},
     selection_window : 0..3,
     stalled_threshold : 0..2,
     seed : {<<>>},
     weights : {Weights}]

InitScenarioA == InitCall(ScenarioAPools, ScenarioAConfigs)

SpecScenarioA == InitScenarioA /\ [][Next]_vars

(* C5: in scenario A greedy_select selects exactly 2 lineups and they are  *)
(* the two with the highest composite scores, for every assignment of      *)
(* distinct scores, every selection window and every stall threshold.      *)

C5_TopTwoSelected ==
    Returned =>
        /\ Len(selected) = 2
        /\ selected[1] # selected[2]
        /\ \A i \in Range(selected) : \A j \in DOMAIN records \ Range(selected) :
                score_lookup[i] > score_lookup[j]

\* a window of one lineup: the second pick came after the threshold was
\* relaxed and the pointer advanced, and the lineup left out is the first row
C5_Witness ==
    /\ Returned
    /\ Len(selected) = 2
    /\ window = 1
    /\ relaxations >= 1
    /\ 1 \notin Range(selected)

----------------------------------------------------------------------------
(* Two runs of greedy_select, one after the other, on the same records and *)
(* the same configuration; the first run's results are kept in prev_run.   *)

SeededConfigs ==
    [n_target : 1..MaxTarget,
     cap_pct : {67, 100},
     max_repeat_init : {0, 1},
     max_repeat_limit : {2},
     breadth_penalty : {0, 10},
     selection_window : {0, 1, 2},
     stalled_threshold : {0, 1},
     seed : {<<>>, <<0>>, <<1>>, <<2>>},
     weights : {Weights}]

InitSeeded == InitCall(Pools, SeededConfigs)

NextSeeded == Select \/ Rerun

SpecSeeded == InitSeeded /\ [][NextSeeded]_vars

(* C6: two runs of greedy_select on the same records, with the same        *)
(* configuration and the same seed (not None), return the same sequence of *)
(* selected lineups, the same per-player counts and the same diagnostics.  *)

----------------------------------------------------------------------------
(* C7 as stated: when greedy_select returns, len(selected) == n_target or  *)
(* the sweep pointer has reached or passed the end of the ranked order.    *)

C7_Original ==
    Returned => (Len(selected) = cfg.n_target \/ pointer >= Len(order))

(* C7 amended: greedy_select terminates for every finite pool and every    *)
(* configuration, and when it returns len(selected) >= n_target (equal to  *)
(* n_target when n_target >= 0) or the sweep pointer has reached or passed *)
(* the end of the ranked order.  Termination is stated by a measure: every *)
(* iteration of the loop is possible, and it strictly decreases a          *)
(* non-negative integer or leaves the loop.                                *)

Measure ==
    Max(cfg.n_target - Len(selected), 0)
    + Max(cfg.max_repeat_limit - max_repeat, 0)
    + Max(Len(order) - pointer, 0)

StopReason ==
    \/ Len(selected) >= cfg.n_target /\ (cfg.n_target >= 0 => Len(selected) = cfg.n_target)
    \/ pointer >= Len(order)

C7_Terminates ==
    /\ [][gpc = "loop" => (gpc' = "returned" \/ (Measure' < Measure /\ Measure' >= 0))]_vars
    /\ [](gpc = "loop" => ENABLED Select)
    /\ [](Returned => StopReason)

\* an under-filled run that relaxed the threshold and ended on exhaustion
C7_Witness ==
    /\ Returned
    /\ Len(selected) < cfg.n_target
    /\ Len(selected) >= 1
    /\ relaxations >= 1
    /\ pointer >= Len(order)

(* C8 as stated: at return diag.picked is the number of selected lineups,  *)
(* diag.target is n_target and picked <= target; summarize_selection emits *)
(* the WARNING line iff picked < n_target.                                 *)

Warned == "WARNING" \in Range(summary)

C8_Original ==
    /\ Returned =>
            /\ diag[1].picked = Len(selected)
            /\ diag[1].target = cfg.n_target
            /\ diag[1].picked <= diag[1].target
    /\ summary # <<>> => (Warned <=> Len(selected) < cfg.n_target)

(* C8 amended: at return diag.picked is the number of selected lineups,    *)
(* diag.target is n_target and picked <= max(target, 0) (picked <= target  *)
(* whenever n_target >= 0); summarize_selection emits the WARNING line iff *)
(* picked < n_target.                                                      *)

C8_UnderfillReported ==
    /\ Returned =>
            /\ diag[1].picked = Len(selected)
            /\ diag[1].target = cfg.n_target
            /\ diag[1].picked <= Max(diag[1].target, 0)
    /\ summary # <<>> => (Warned <=> Len(selected) < cfg.n_target)

\* the summary of an under-filled run with at least one lineup
C8_Witness ==
    /\ summary # <<>>
    /\ Warned
    /\ Len(selected) >= 1
    /\ diag[1].picked < diag[1].target

----------------------------------------------------------------------------
(* C9: in main, whenever the pool is empty, the pool is empty after        *)
(* pruning, or the selector returns no lineup, the run ends in an error    *)
(* (an exception is raised) and none of the three outputs is written;      *)
(* outputs are written only after a selection of at least one lineup.      *)

\* main is past the test of the pool after pruning
PastPrune ==
    mpc \in {"records", "select", "export_lineups", "export_usage", "summary", "done"}

\* main is past the test of the selection
PastCheck == mpc \in {"export_lineups", "export_usage", "summary", "done"}

C9_FailuresWriteNothing ==
    /\ [][(mpc = "prune" /\ lineups_df' = <<>>) => mpc' = "error"]_vars
    /\ [][(mpc = "select" /\ gpc = "returned" /\ selected = <<>>) => mpc' = "error"]_vars
    /\ [][mpc # "error"]_vars
    /\ [](PastPrune => (df_in # <<>> /\ lineups_df # <<>>))
    /\ [](PastCheck => (gpc = "returned" /\ selected # <<>>))
    /\ [](mpc = "error" => (written = {} /\ error # ""))
    /\ [](written # {} => (PastCheck /\ error = ""))

\* pruning removed lineups and left some, the selector ran on them and
\* returned no lineup, and main raised without writing
C9_Witness ==
    /\ mpc = "error"
    /\ prune_stats # <<>>
    /\ prune_stats[1].removed_lineups >= 1
    /\ records # <<>>
    /\ gpc = "returned"
    /\ selected = <<>>
    /\ written = {}

----------------------------------------------------------------------------
(* C10: prune_lineups removes exactly the lineups with at least one player *)
(* whose usage in the given map is strictly below min_usage_frac; a lineup *)
(* whose players all have usage >= min_usage_frac is kept, survivors keep  *)
(* their order, n_after + removed_lineups = n_before, and when no player   *)
(* is below the threshold the pool is returned unchanged with              *)
(* removed_lineups = 0.                                                    *)

\* player pid has an entry in the usage map strictly below the cutoff
Below(pid) ==
    /\ pid \in DOMAIN usage_map
    /\ usage_map[pid].num * 100 < args.min_usage_pct * usage_map[pid].den

\* the rows of the table passed in that hold no such player
Survivors == {r \in DOMAIN df_in : \A k \in DOMAIN df_in[r] : ~Below(df_in[r][k].id)}

\* the i-th survivor in the order of the table passed in
NthSurvivor(i) == CHOOSE r \in Survivors : Cardinality({q \in Survivors : q < r}) = i - 1

C10_PruneExact ==
    mpc = "prune_returned" =>
        /\ Len(lineups_df) = Cardinality(Survivors)
        /\ \A i \in DOMAIN lineups_df : lineups_df[i] = df_in[NthSurvivor(i)]
        /\ prune_stats[1].n_before = Len(df_in)
        /\ prune_stats[1].n_after = Len(lineups_df)
        /\ prune_stats[1].n_after + prune_stats[1].removed_lineups
                = prune_stats[1].n_before
        /\ (\A pid \in DOMAIN usage_map : ~Below(pid)) =>
                (lineups_df = df_in /\ prune_stats[1].removed_lineups = 0)

\* a lineup with a player exactly at the cutoff is kept, after a lineup that
\* was removed and before another that was kept
C10_Witness ==
    /\ mpc = "prune_returned"
    /\ args.min_usage_pct > 0
    /\ Len(lineups_df) = 2
    /\ Len(df_in) = 3
    /\ lineups_df[1] = df_in[2]
    /\ \E k \in DOMAIN df_in[2] :
            /\ df_in[2][k].id \in DOMAIN usage_map
            /\ usage_map[df_in[2][k].id].num * 100
                    = args.min_usage_pct * usage_map[df_in[2][k].id].den

----------------------------------------------------------------------------
(* C11: in main, after pruning, the usage map used for scoring and         *)
(* reporting is recomputed over exactly the surviving lineups: each        *)
(* player's usage is its occurrences among the survivors over the number   *)
(* of survivors.  For a 10-lineup pool in which exactly one player has 10% *)
(* usage and a 15% cutoff, exactly that lineup is removed                  *)
(* (removed_lineups = 1) and usage is computed over the remaining 9.       *)

\* the cells of table df that hold player pid
CellsOf(df, pid) ==
    {<<r, k>> \in (DOMAIN df) \X (1..2) : df[r][k].kind # "nan" /\ df[r][k].id = pid}

\* the player ids that occur in table df
PlayersIn(df) ==
    {df[r][k].id : r \in DOMAIN df, k \in 1..2} \ {""}

\* table df without its row p
WithoutRow(df, p) ==
    [i \in 1..(Len(df) - 1) |-> IF i < p THEN df[i] ELSE df[i + 1]]

C11_UsageRecomputed ==
    PastPrune =>
        /\ DOMAIN usage_map = PlayersIn(lineups_df)
        /\ \A pid \in DOMAIN usage_map :
                /\ usage_map[pid].num = Cardinality(CellsOf(lineups_df, pid))
                /\ usage_map[pid].den = Len(lineups_df)
        /\ (Len(df_in) = 10 /\ args.min_usage_pct = 15) =>
                /\ prune_stats[1].removed_lineups = 1
                /\ Len(lineups_df) = 9
                /\ \E p \in 1..10 :
                        /\ df_in[p][2].id = "W"
                        /\ lineups_df = WithoutRow(df_in, p)
                /\ "W" \notin DOMAIN usage_map
                /\ usage_map["X"].den = 9

\* the ten-lineup pool pruned at 15%: a player in 5 of the 10 lineups is in
\* 5 of the 9 survivors, and the run went on to write its outputs
C11_Witness ==
    /\ mpc = "done"
    /\ Len(df_in) = 10
    /\ args.min_usage_pct = 15
    /\ prune_stats[1].removed_lineups = 1
    /\ \E pid \in DOMAIN usage_map : usage_map[pid] = [num |-> 5, den |-> 9]

----------------------------------------------------------------------------
(* C12: compute_pool_usage returns, for every player id occurring in the   *)
(* pool, the number of pool rows in which that id occupies at least one    *)
(* roster slot divided by the total number of rows, so every usage value   *)
(* lies in (0, 1]; blank cells contribute no entry and no count.           *)

\* the rows of table df in which player pid occupies at least one slot
RowsWith(df, pid) ==
    {r \in DOMAIN df : \E k \in 1..2 : df[r][k].kind # "nan" /\ df[r][k].id = pid}

C12_Original ==
    (mpc = "usage_returned" /\ lineups_df # <<>>) =>
        /\ DOMAIN usage_map = PlayersIn(lineups_df)
        /\ \A pid \in DOMAIN usage_map :
                /\ usage_map[pid].num = Cardinality(RowsWith(lineups_df, pid))
                /\ usage_map[pid].den = Len(lineups_df)
                /\ 0 < usage_map[pid].num
                /\ usage_map[pid].num <= usage_map[pid].den

----------------------------------------------------------------------------
(* C13 as stated: computing pool usage on a pool with zero rows fails with *)
(* EmptyPoolError instead of returning a usage map.                        *)

C13_Original ==
    (mpc # "usage_call" /\ lineups_df = <<>>) =>
        (mpc = "error" /\ error = "EmptyPoolError")

(* C13 amended: computing pool usage on a pool with zero rows raises       *)
(* nothing and returns the empty usage map.                                *)

C13_EmptyPoolEmptyMap ==
    (mpc # "usage_call" /\ lineups_df = <<>>) =>
        /\ mpc = "usage_returned"
        /\ error = ""
        /\ usage_map = <<>>

\* compute_pool_usage has returned on a pool of no rows
C13_Witness ==
    /\ mpc = "usage_returned"
    /\ lineups_df = <<>>
    /\ DOMAIN usage_map = {}

----------------------------------------------------------------------------
(* C14: every lineup selected by the pipeline fills the fixed roster       *)
(* schema: its player tuple has exactly one entry per roster column and    *)
(* every entry is a non-blank player id; no selected or exported lineup    *)
(* has an empty slot.                                                      *)

C14_Original ==
    \A s \in DOMAIN selected :
        /\ Len(records[selected[s]].players_id) = Len(lineups_df[1])
        /\ \A k \in DOMAIN records[selected[s]].players_id :
                records[selected[s]].players_id[k] # ""

----------------------------------------------------------------------------
(* C15 as stated: normalize returns a list of the length of its input; if  *)
(* all input values are equal every output is 0.0; otherwise the minimum   *)
(* maps to 0, the maximum maps to 1, every output lies in [0, 1] and the   *)
(* order of the values is preserved.  An output is nz.num[i] / nz.den.     *)

AllEqual == \A i \in DOMAIN nz.values : \A j \in DOMAIN nz.values :
                nz.values[i] = nz.values[j]

AllZero == \A i \in DOMAIN nz.num : nz.num[i] = 0

\* the minimum maps to 0, the maximum to 1, every output is in [0, 1] and
\* the outputs are in the order of the values
Scaled ==
    /\ nz.den > 0
    /\ \A i \in DOMAIN nz.values :
            /\ nz.values[i] = SeqMin(nz.values) => nz.num[i] = 0
            /\ nz.values[i] = SeqMax(nz.values) => nz.num[i] = nz.den
            /\ 0 <= nz.num[i]
            /\ nz.num[i] <= nz.den
            /\ \A j \in DOMAIN nz.values :
                    (nz.values[i] < nz.values[j]) <=> (nz.num[i] < nz.num[j])

WithinTiny == \A i \in DOMAIN nz.values : \A j \in DOMAIN nz.values :
                nz.values[i] - nz.values[j] <= nz.tiny

----------------------------------------------------------------------------
(* C16: in the selection greedy_select returns no player's exposure        *)
(* exceeds the cap: for every player, (number of selected lineups with the *)
(* player) / (number of selected lineups) <= cap_pct / 100.                *)

C16_Original ==
    Returned =>
        \A p \in AllPlayers : LineupsWith(p) * 100 <= cfg.cap_pct * Len(selected)

----------------------------------------------------------------------------
(* Property vocabulary of the generator.                                   *)

\* a worker that was submitted and has not left generate_lineups_dynamic_worker
Running(w) == wpc[w] \in {"setup", "test", "get", "optimize", "lock", "extend"}

AllDone == \A w \in Threads : wpc[w] = "done"

\* the lineup file holding every lineup of the shared list, under PARTIAL
PartialOfAll == [prefix |-> "PARTIAL", lineups |-> all_lineups]

----------------------------------------------------------------------------
\* C17: once cancellation_requested is set, no worker dequeues a further
\* batch from work_queue, under every interleaving of signal_handler and the
\* workers: a step taken with the flag set, once the queue has been filled,
\* leaves work_queue as it was.
C17_Original ==
    [][(cancellation_requested /\ dpc = "workers") => work_queue' = work_queue]_vars

----------------------------------------------------------------------------
\* C18 as stated: if cancellation_requested is set while a worker is running
\* then, every optimize call returning, all workers leave their loop and
\* generate_lineups_dynamic saves a PARTIAL file holding all of all_lineups.
C18_Original ==
    (cancellation_requested /\ dpc = "workers" /\ \E w \in Threads : Running(w))
        ~> (AllDone /\ dpc = "returned" /\ saved = PartialOfAll)

\* C18: if cancellation_requested is set while a worker is running then all
\* workers leave their loop and generate_lineups_dynamic returns; when
\* all_lineups is not empty it has saved a PARTIAL file holding all of
\* all_lineups, in order, and when all_lineups is empty it has saved no file.
C18_PartialSaved ==
    (cancellation_requested /\ dpc = "workers" /\ \E w \in Threads : Running(w))
        ~> /\ AllDone
           /\ dpc = "returned"
           /\ all_lineups # <<>> => saved = PartialOfAll
           /\ all_lineups = <<>> => saved = NoFile

\* a cancelled run returned with batches left in the queue and a PARTIAL file
\* of the lineups the workers had appended
C18_Witness ==
    /\ dpc = "returned"
    /\ cancellation_requested
    /\ work_queue # <<>>
    /\ all_lineups # <<>>
    /\ saved = PartialOfAll

----------------------------------------------------------------------------
(* Property vocabulary of the loop body of greedy_select.                  *)

\* the loop is about to run a sweep in which no candidate passes
StallSweep == gpc = "loop" /\ LoopCond /\ BestIdx = 0

\* the loop is about to run a sweep that chooses a candidate
ChoosingSweep == gpc = "loop" /\ LoopCond /\ BestIdx # 0

\* the count of player p in a counts dictionary
CountOf(cnts, p) == IF p \in DOMAIN cnts THEN cnts[p] ELSE 0

----------------------------------------------------------------------------
\* C19 as stated: on a sweep with no passing candidate, for every value of
\* stalled_threshold, if stalled + 1 >= stalled_threshold and max_repeat <
\* max_repeat_limit then max_repeat and relaxations rise by 1, stalled is 0
\* and pointer is unchanged; otherwise stalled rises by 1, pointer rises by
\* window and max_repeat is unchanged; selected, counts, seen_sets unchanged.
C19_Original ==
    [][StallSweep =>
          /\ IF stalled + 1 >= cfg.stalled_threshold /\ max_repeat < cfg.max_repeat_limit
             THEN /\ max_repeat' = max_repeat + 1
                  /\ relaxations' = relaxations + 1
                  /\ stalled' = 0
                  /\ pointer' = pointer
             ELSE /\ stalled' = stalled + 1
                  /\ pointer' = pointer + window
                  /\ max_repeat' = max_repeat
          /\ UNCHANGED <<selected, counts, seen_sets>>]_vars

\* C19: on a sweep with no passing candidate, if stalled_threshold > 0 and
\* stalled + 1 >= stalled_threshold and max_repeat < max_repeat_limit then
\* max_repeat and relaxations rise by 1, stalled is 0 and pointer is
\* unchanged; otherwise (in particular whenever stalled_threshold <= 0)
\* stalled rises by 1, pointer rises by window, max_repeat and relaxations
\* are unchanged; selected, counts and seen_sets are unchanged in both cases.
C19_StallCheck ==
    [][StallSweep =>
          /\ IF /\ cfg.stalled_threshold > 0
                /\ stalled + 1 >= cfg.stalled_threshold
                /\ max_repeat < cfg.max_repeat_limit
             THEN /\ max_repeat' = max_repeat + 1
                  /\ relaxations' = relaxations + 1
                  /\ stalled' = 0
                  /\ pointer' = pointer
             ELSE /\ stalled' = stalled + 1
                  /\ pointer' = pointer + window
                  /\ max_repeat' = max_repeat
                  /\ relaxations' = relaxations
          /\ UNCHANGED <<selected, counts, seen_sets>>]_vars

\* a run that relaxed the overlap threshold on one stalled sweep and advanced
\* the pointer on a later one
C19_Witness ==
    /\ gpc = "loop"
    /\ relaxations >= 1
    /\ last_step.kind = "advance"
    /\ pointer > 0
    /\ stalled >= 1

----------------------------------------------------------------------------
----------------------------------------------------------------------------
\* the positions of the window whose candidate passes the hard constraints
PassingPositions == {k \in DOMAIN Batch : Passes(Batch[k])}

\* C21: whenever a candidate of the current window passes the hard
\* constraints, the sweep selects a passing candidate of that window whose
\* penalized score is maximal among the passing candidates of the window, the
\* earliest in the ranked order among those of maximal score.
C21_SelectMax ==
    [][(gpc = "loop" /\ LoopCond /\ PassingPositions # {}) =>
          \E k \in PassingPositions :
              /\ selected' = Append(selected, Batch[k])
              /\ \A j \in PassingPositions :
                    \/ PenalizedScore(Batch[j]) < PenalizedScore(Batch[k])
                    \/ PenalizedScore(Batch[j]) = PenalizedScore(Batch[k]) /\ j >= k]_vars

\* a sweep over a window of several candidates selected one that is not the
\* first of the window, with a breadth penalty in force
C21_Witness ==
    /\ last_step.kind = "apply"
    /\ Len(last_step.batch) >= 2
    /\ last_step.idx # last_step.batch[1]
    /\ cfg.breadth_penalty > 0
    /\ Len(selected) >= 2

----------------------------------------------------------------------------
\* C22: over lineups of one roster size, for every candidate, selection
\* state, cap and threshold, core.passes_caps (which skips the pairwise
\* overlap check once max_repeat >= the roster size) returns the same boolean
\* as mme150_picker.passes_caps (which always performs it).
C22_SameVerdict ==
    verdict.pc = "returned" => verdict.core = verdict.mme150

\* both accepted a candidate that shares its whole roster with a selected
\* lineup, at a threshold equal to the roster size
C22_Witness ==
    /\ verdict.pc = "returned"
    /\ verdict.core
    /\ verdict.mme150
    /\ max_repeat = Len(records[verdict.idx].players_id)
    /\ \E s \in DOMAIN selected :
          Overlap(records[selected[s]].players_id,
                  PlayerSet(records[verdict.idx].players_id))
              = Len(records[verdict.idx].players_id)

----------------------------------------------------------------------------
\* the rank of record idx in the ranked order
PosOf(idx) == CHOOSE p \in DOMAIN order : order[p] = idx

\* the window of the ranked order that record idx lies in
WindowIndex(idx) == (PosOf(idx) - 1) \div window

\* C23: the sweep pointer never decreases and moves only on a sweep with no
\* passing candidate; every candidate a sweep examines, and the lineup it
\* selects, lies at a rank after the pointer, so nothing of a window the
\* pointer has passed is examined or selected again; and the window indices
\* of the selected lineups are non-decreasing in selection order.
C23_NoRevisit ==
    [][/\ pointer' >= pointer
       /\ pointer' # pointer => StallSweep
       /\ gpc = "loop" =>
            /\ \A k \in DOMAIN Batch : PosOf(Batch[k]) > pointer
            /\ \A s \in DOMAIN selected' :
                  s > Len(selected) => PosOf(selected'[s]) > pointer
            /\ \A s \in DOMAIN selected' : \A t \in DOMAIN selected' :
                  s < t => WindowIndex(selected'[s]) <= WindowIndex(selected'[t])]_vars

\* the pointer has passed an unselected lineup that passes the hard
\* constraints now that the overlap threshold has been relaxed
C23_Witness ==
    /\ gpc = "loop"
    /\ pointer > 0
    /\ relaxations >= 1
    /\ \E p \in 1..Min(pointer, Len(order)) :
          /\ \A s \in DOMAIN selected : selected[s] # order[p]
          /\ Passes(order[p])

----------------------------------------------------------------------------
\* C24: when greedy_select returns under-filled (picked < n_target), no
\* unselected lineup of the pool passes the hard constraints (exposure cap,
\* no duplicate player set, overlap <= final threshold) against the final
\* selection state.
C24_Original ==
    (Returned /\ Len(selected) < cfg.n_target) =>
        \A idx \in DOMAIN records :
            (\A s \in DOMAIN selected : selected[s] # idx) => ~Passes(idx)

----------------------------------------------------------------------------
\* C25: if max_repeat_init < max_repeat_limit and stalled_threshold >= 1 and
\* greedy_select returns under-filled (picked < n_target), then
\* diag['max_repeat_final'] = max_repeat_limit.
C25_Original ==
    (/\ Returned
     /\ cfg.max_repeat_init < cfg.max_repeat_limit
     /\ cfg.stalled_threshold >= 1
     /\ diag[1].picked < cfg.n_target) =>
        diag[1].max_repeat_final = cfg.max_repeat_limit

----------------------------------------------------------------------------
\* the workers that hold a dequeued batch and have not called task_done for it
InFlight == {w \in Threads : wpc[w] \in {"optimize", "lock", "extend"}}

\* the lineups of every batch whose optimize call returned lineups
CompletedLineups == UNION {Range(completed[b]) : b \in DOMAIN completed}

\* C26: every batch id of the work queue is dequeued by at most one worker;
\* task_done has been called exactly once for every dequeued batch that is no
\* longer in flight (unfinished_tasks counts the batches still queued or in
\* flight); and when all workers have exited, all_lineups holds exactly the
\* lineups of the batches whose optimization completed, each once.
C26_BatchesOnce ==
    dpc \in {"workers", "returned"} =>
        /\ \A i \in DOMAIN dequeues : \A j \in DOMAIN dequeues :
              i # j => dequeues[i].batch # dequeues[j].batch
        /\ \A i \in DOMAIN dequeues : \A k \in DOMAIN work_queue :
              dequeues[i].batch # work_queue[k]
        /\ unfinished_tasks = Len(work_queue) + Cardinality(InFlight)
        /\ AllDone =>
              /\ Range(all_lineups) = CompletedLineups
              /\ Cardinality(Range(all_lineups)) = Len(all_lineups)

\* two workers have exited after each dequeued a batch; one batch completed
\* with lineups and another did not
C26_Witness ==
    /\ dpc = "workers"
    /\ AllDone
    /\ ~cancellation_requested
    /\ \E i \in DOMAIN dequeues : \E j \in DOMAIN dequeues :
          dequeues[i].thread # dequeues[j].thread
    /\ Len(all_lineups) >= 2
    /\ \E i \in DOMAIN dequeues : dequeues[i].batch \notin DOMAIN completed

----------------------------------------------------------------------------
\* C27: every explicitly supplied value of --n, --max-repeat,
\* --max-repeat-limit, --selection-window and --stalled-threshold, 0
\* included, reaches greedy_select unchanged; a default is substituted only
\* for an option that was not supplied.
C27_Original ==
    ns.pc = "passed" =>
        \A f \in SelectorOptions :
            /\ ns.given[f] # <<>> => ns.passed[f] = ns.given[f][1]
            /\ ns.args[f] = Defaults[f] => ns.given[f] \in {<<>>, <<Defaults[f]>>}

----------------------------------------------------------------------------
\* the window positions whose candidate passes mme150_picker.passes_caps
PassingPositions150 == {k \in DOMAIN Batch : Passes150(Batch[k])}

\* the penalized score of lineup idx taken from the score computed for idx
OwnScore150(idx) == Penalized150(ComputedScores(records)[idx], idx)

\* C28: each sweep of mme150_picker.greedy_select selects, among the window
\* candidates that pass the caps, the lineup maximizing its own base score
\* minus 0.05 times its breadth penalty: the base score used for lineup i is
\* the score that was computed for lineup i.
C28_Original ==
    [][(gpc = "loop150" /\ LoopCond /\ PassingPositions150 # {}) =>
          /\ \A k \in PassingPositions150 :
                base_scores[Batch[k]].s = ComputedScores(records)[Batch[k]]
          /\ \E k \in PassingPositions150 :
                /\ selected' = Append(selected, Batch[k])
                /\ \A j \in PassingPositions150 :
                      OwnScore150(Batch[j]) <= OwnScore150(Batch[k])]_vars

----------------------------------------------------------------------------
\* C29: after the prune step of main with a cutoff above 0 and the
\* recomputation of usage over the surviving pool, every player occurring in
\* the surviving pool has recomputed usage >= the cutoff.
C29_Original ==
    (PastPrune /\ args.min_usage_pct > 0) =>
        \A pid \in PlayersIn(lineups_df) :
            /\ pid \in DOMAIN usage_map
            /\ usage_map[pid].num * 100 >= args.min_usage_pct * usage_map[pid].den

----------------------------------------------------------------------------
\* C30: throughout a run of greedy_select with max_repeat_init <=
\* max_repeat_limit the overlap threshold never decreases, changes only by +1
\* and only in a relaxation step (a stalled sweep that also counts one more
\* relaxation), and never exceeds max_repeat_limit; at return
\* max_repeat_final = max_repeat_start + repeat_relaxations.
C30_ThresholdMonotone ==
    /\ [][(gpc = "loop" /\ cfg.max_repeat_init <= cfg.max_repeat_limit) =>
            \/ max_repeat' = max_repeat /\ relaxations' = relaxations
            \/ /\ StallSweep
               /\ max_repeat' = max_repeat + 1
               /\ relaxations' = relaxations + 1]_vars
    /\ []((gpc \in {"loop", "returned"} /\ cfg.max_repeat_init <= cfg.max_repeat_limit) =>
            /\ cfg.max_repeat_init <= max_repeat
            /\ max_repeat <= cfg.max_repeat_limit
            /\ max_repeat = cfg.max_repeat_init + relaxations)
    /\ [](Returned =>
            /\ diag[1].max_repeat_start = cfg.max_repeat_init
            /\ diag[1].max_repeat_final = max_repeat
            /\ diag[1].max_repeat_final
                  = diag[1].max_repeat_start + diag[1].repeat_relaxations)

\* a run that relaxed the threshold twice, up to max_repeat_limit, and
\* returned
C30_Witness ==
    /\ Returned
    /\ cfg.max_repeat_init = 0
    /\ cfg.max_repeat_limit = 2
    /\ diag[1].repeat_relaxations = 2
    /\ diag[1].max_repeat_final = 2
    /\ selected # <<>>

=============================================================================
